---- MODULE Spec2Model ----
(***************************************************************************)
(* A model of the fluxus stream engine: the DataStream builder and its     *)
(* fused pull sources (fluxus-api, fluxus-transformers) and the linear     *)
(* runtime Pipeline::execute (fluxus-core).                                *)
(***************************************************************************)
EXTENDS Integers, Sequences, FiniteSets, TLC

\* ------------------------------------------------------------------ bounds
MaxLen == 3        \* longest source script
MaxVal == 2        \* payloads are 0..MaxVal
MaxCalls == 3      \* builder calls before sink()
MaxLimit == 2      \* largest argument of limit(n)
MaxSrc == 2        \* longest source script of a Pipeline
MaxOps == 2        \* most operators added to a Pipeline
MaxAttempts == 2   \* largest max_attempts of a retry strategy
MaxHigh == 2       \* largest high_watermark of Throttle
MaxNow == 2        \* the watermark ticker stops advancing the clock here
MaxRtLen == 2      \* longest source script of a runtime pipeline
MaxStages == 2     \* most operator stages of a runtime pipeline
MaxPar == 2        \* largest parallelism
MaxBuf == 2        \* largest buffer_size
MaxFeed == 3       \* most records a windowed stream is fed
MaxTs == 2         \* latest wall-clock timestamp of a windowed stream
MaxLateness == 1   \* largest allow_lateness of a window config
MaxTriggers == 2   \* most calls of on_window_trigger
MaxClock == 5      \* latest reading of current_time()
MaxThreads == 2    \* threads sharing a KeyedStateBackend
MaxKey == 1        \* keys of the state backend are 0..MaxKey
MaxKsCalls == 3    \* most get and set calls on the state backend
MaxDate == 2       \* dates of the archive are the days 0..MaxDate
MaxBufferSize == 2 \* largest buffer_size of a BufferedSink
MaxWrites == 3     \* most write calls on a BufferedSink
MaxSinkCalls == 2  \* most flush and close calls on a BufferedSink
MaxK == 2          \* largest k of top_k(k)

Data == 0 .. MaxVal

\* ------------------------------------------------------------- state
VARIABLES
    \* --- DataStream (fluxus-api/src/stream/datastream.rs)
    ds_phase,      \* "build" | "run" | "flush" | "close" | "done"
    ds_stream,     \* the DataStream value: [source, operators]
    ds_calls,      \* the builder calls made so far (history)
    ds_input,      \* the script the source started with (history)
    ds_data,       \* CollectionSource.data / the source's remaining script
    ds_clock,      \* the wall clock the source stamps records with
    ds_n,          \* the AtomicUsize counters captured by the limit closures
    ds_emitted,    \* records the innermost source has handed out (history)
    ds_sunk,       \* records the sink has accepted, in order
    ds_flushed,    \* sink.flush() has returned Ok
    ds_closed,     \* sink.close() has returned Ok
    ds_ret         \* what DataStream::sink returned: "none" | "ok" | "err"

dsVars == <<ds_phase, ds_stream, ds_calls, ds_input, ds_data, ds_clock, ds_n,
            ds_emitted, ds_sunk, ds_flushed, ds_closed, ds_ret>>

VARIABLES
    \* --- Pipeline (fluxus-core/src/pipeline/processor.rs)
    pl_status,          \* Pipeline.status: a PipelineStatus
    pl_pc,              \* where execute() is: "ready" | "loop" | "sleep" |
                        \*   "ops" | "write" | "flush" | "close" | "returned"
    pl_ret,             \* what execute() returned: "none" | "ok" | "err"
    pl_input,           \* the script the source started with (history)
    pl_source,          \* Pipeline.source: the script left
    pl_clock,           \* the wall clock (SystemTime::now)
    pl_emitted,         \* records the source has handed out (history)
    pl_operators,       \* Pipeline.operators
    pl_retry,           \* Pipeline.error_handler.strategy
    pl_backpressure,    \* Pipeline.backpressure.strategy
    pl_load,            \* Pipeline.backpressure.current_load
    pl_window,          \* Pipeline.window_config
    pl_last_watermark,  \* Pipeline.last_watermark
    pl_op,              \* index of the operator of the running `for op`
    pl_current,         \* current_records not yet processed by that operator
    pl_next,            \* the local `next`
    pl_records,         \* the local `records`
    pl_success,         \* the local `success`
    pl_attempt,         \* the local `attempt` of ErrorHandler::retry
    pl_sink,            \* records the sink has accepted, in order
    pl_flushed,         \* sink.flush() has returned Ok
    pl_closed,          \* sink.close() has returned Ok
    pl_processed,       \* the records_processed counter
    pl_failed,          \* the records_failed counter
    pl_faulted,         \* some process/write/flush/close call has failed (history)
    pl_dropped,         \* timestamps of the source records given up in an operator (history)
    pl_abandoned,       \* records given up in write_with_retry (history)
    pl_fails,           \* most failures any one retried call has had (history)
    pl_triggers,        \* rounds of on_window_trigger over the operators (history)
    pl_timer_count      \* process_time's count_counter, as a snapshot reads it

plVars == <<pl_status, pl_pc, pl_ret, pl_input, pl_source, pl_clock, pl_emitted,
            pl_operators, pl_retry, pl_backpressure, pl_load, pl_window,
            pl_last_watermark, pl_op, pl_current, pl_next, pl_records,
            pl_success, pl_attempt, pl_sink, pl_flushed, pl_closed,
            pl_processed, pl_failed, pl_faulted, pl_dropped, pl_abandoned,
            pl_fails, pl_triggers, pl_timer_count>>

VARIABLES
    \* --- RuntimeContext (fluxus-runtime/src/runtime.rs)
    rt_returned,        \* execute_pipeline has returned Ok(()) (and dropped tx)
    rt_parallelism,     \* parallel_config.parallelism
    rt_buffer_size,     \* parallel_config.buffer_size
    rt_operators,       \* the operators, one stage each
    rt_input,           \* the script the source started with (history)
    rt_source,          \* the source: the script left
    rt_clock,           \* the wall clock
    rt_emitted,         \* records the source has handed out (history)
    rt_src,             \* the source task: [pc, hand]
    rt_queue,           \* the mpsc channels: rt_queue[1] from the source,
                        \*   rt_queue[s + 1] from stage s
    rt_worker,          \* rt_worker[s][w]: [pc, hand, out] of worker w of stage s
    rt_oplock,          \* rt_oplock[s]: the worker holding the operator's Mutex, or 0
    rt_sink_pc,         \* the sink task: "recv" | "write" | "flush" | "close" | "done"
    rt_sink_hand,       \* the record the sink task has received and not yet written
    rt_sink,            \* records the sink has accepted, in order
    rt_flushes,         \* calls of sink.flush() so far
    rt_closes,          \* calls of sink.close() so far
    rt_faulted          \* some process/write/flush/close call has failed (history)

rtVars == <<rt_returned, rt_parallelism, rt_buffer_size, rt_operators, rt_input,
            rt_source, rt_clock, rt_emitted, rt_src, rt_queue, rt_worker,
            rt_oplock, rt_sink_pc, rt_sink_hand, rt_sink, rt_flushes, rt_closes,
            rt_faulted>>

VARIABLES
    \* --- a windowed stream: DataStream::new(source).window(cfg).<op>.sink(k)
    wn_pc,              \* the sink loop: "run" | "done"
    wn_window,          \* WindowConfig.window_type
    wn_kind,            \* the combinator: "aggregate" | "fold" | "any" | "all" |
                        \*   "top_k" | "top_k_by_key" |
                        \*   "skip" | "sort_asc" | "sort_desc" | "sort_by_ts_asc" |
                        \*   "sort_by_ts_desc"
    wn_k,               \* the k of top_k(k), the n of skip(n)
    wn_clock,           \* the timestamp of the latest record
    wn_inputs,          \* records the source has handed out (history)
    wn_state,           \* the operator's keyed state or buffer
    wn_outputs,         \* what process answered for each input (history)
    wn_sunk             \* records the sink has accepted, in order

wnVars == <<wn_pc, wn_window, wn_kind, wn_k, wn_clock, wn_inputs, wn_state,
            wn_outputs, wn_sunk>>

VARIABLES
    \* --- a WindowReduceOperator (fluxus-transformers/src/operator/window_reduce.rs)
    wr_pc,              \* "idle" | "run"
    wr_window,          \* WindowConfig: [window_type, allow_lateness]
    wr_now,             \* current_time() at the latest on_window_trigger
    wr_buffer,          \* buffer: HashMap<i64, Vec<Record<T>>>
    wr_inputs,          \* records process was called with (history)
    wr_last,            \* the latest call: "none" | "process" | "trigger"
    wr_before,          \* buffer as the latest call found it (history)
    wr_results,         \* what the latest call answered
    wr_triggers         \* calls of on_window_trigger so far

wrVars == <<wr_pc, wr_window, wr_now, wr_buffer, wr_inputs, wr_last, wr_before,
            wr_results, wr_triggers>>

VARIABLES
    \* --- one call of ErrorHandler::retry (fluxus-core/src/error_handling/mod.rs)
    er_pc,              \* "idle" | "call" | "sleep" | "returned"
    er_strategy,        \* ErrorHandler.strategy
    er_attempt,         \* the local `attempt`
    er_outcomes,        \* what each call of operation() answered (history)
    er_slept,           \* the delays slept (history)
    er_ret              \* what retry returned, None while it runs

erVars == <<er_pc, er_strategy, er_attempt, er_outcomes, er_slept, er_ret>>

VARIABLES
    \* --- a KeyedStateBackend shared by threads (fluxus-runtime/src/state.rs)
    ks_state,           \* the HashMap behind the RwLock
    ks_lock,            \* the RwLock: [readers, writer]
    ks_torn,            \* an insert is rearranging the map
    ks_thread,          \* ks_thread[t]: [pc, key, value, got] of thread t
    ks_calls            \* the calls in the order of their guarded sections (history)

ksVars == <<ks_state, ks_lock, ks_torn, ks_thread, ks_calls>>

VARIABLES
    \* --- a GithubArchiveSource over a date range (fluxus-sources/src/gharchive.rs)
    ga_pc,              \* "idle" | "reading" | "advance" | "exhausted"
    ga_start_date,      \* start_date, as a day number
    ga_end_date,        \* end_date: Option<NaiveDate>
    ga_cur_date,        \* cur_date
    ga_cur_hour,        \* cur_hour
    ga_visited,         \* the (date, hour) files the source has gone to (history)
    ga_served           \* the current file has yielded an event

gaVars == <<ga_pc, ga_start_date, ga_end_date, ga_cur_date, ga_cur_hour,
            ga_visited, ga_served>>

VARIABLES
    \* --- a BufferedSink over an inner sink (fluxus-sinks/src/buffered.rs)
    bs_pc,              \* "idle" | "open" | "closed" (the inner sink is closed)
    bs_buffer_size,     \* buffer_size
    bs_buffer,          \* buffer: the ids of the records held
    bs_inner,           \* the calls the inner sink has answered Ok, in order
    bs_written,         \* write calls so far; the n-th writes the record n
    bs_acked,           \* the records whose write answered Ok (history)
    bs_last,            \* the latest call: [op, ret, failed]
    bs_calls            \* flush and close calls so far

bsVars == <<bs_pc, bs_buffer_size, bs_buffer, bs_inner, bs_written, bs_acked,
            bs_last, bs_calls>>

vars == <<dsVars, plVars, rtVars, wnVars, wrVars, erVars, ksVars, gaVars, bsVars>>

\* what the steps of one machine leave alone
notDS == <<plVars, rtVars, wnVars, wrVars, erVars, ksVars, gaVars, bsVars>>
notPL == <<dsVars, rtVars, wnVars, wrVars, erVars, ksVars, gaVars, bsVars>>
notRT == <<dsVars, plVars, wnVars, wrVars, erVars, ksVars, gaVars, bsVars>>
notWN == <<dsVars, plVars, rtVars, wrVars, erVars, ksVars, gaVars, bsVars>>
notWR == <<dsVars, plVars, rtVars, wnVars, erVars, ksVars, gaVars, bsVars>>
notER == <<dsVars, plVars, rtVars, wnVars, wrVars, ksVars, gaVars, bsVars>>
notKS == <<dsVars, plVars, rtVars, wnVars, wrVars, erVars, gaVars, bsVars>>
notGA == <<dsVars, plVars, rtVars, wnVars, wrVars, erVars, ksVars, bsVars>>
notBS == <<dsVars, plVars, rtVars, wnVars, wrVars, erVars, ksVars, gaVars>>

\* ------------------------------------------------------- records, results
Rec(d, ts) == [data |-> d, timestamp |-> ts]
NoRec == Rec(0, 0)

\* An item of a source script: what one call of Source::next will answer.
\*   "rec"  Ok(Some(record))      "wait" Err(StreamError::Wait(ms))
\*   "eof"  Err(StreamError::EOF) "err"  Err(any other StreamError)
\* An exhausted script answers Ok(None).
Item(tag, d) == [tag |-> tag, data |-> d]
Items == {Item("rec", d) : d \in Data} \cup {Item("wait", 0), Item("eof", 0), Item("err", 0)}

RECURSIVE SeqsUpTo(_, _)
SeqsUpTo(S, n) ==
    IF n = 0 THEN {<<>>}
    ELSE LET shorter == SeqsUpTo(S, n - 1)
         IN  shorter \cup {Append(s, x) : s \in {t \in shorter : Len(t) = n - 1}, x \in S}

Scripts == SeqsUpTo(Items, MaxLen)

\* StreamResult<Option<Record<T>>> together with the state the call left behind
Res(tag, rec, st) == [tag |-> tag, rec |-> rec, st |-> st]

Min(a, b) == IF a <= b THEN a ELSE b
Max(a, b) == IF a >= b THEN a ELSE b

\* ---------------------------------------------------- the user's closures
\* map(f): f = |x| x + 10
MapF(x) == x + 10
\* filter(p): p = |x| x % 2 == 0
FilterP(x) == x % 2 = 0
\* filter(q): q = |x| x > 10, which tells a mapped value from an input
FilterQ(x) == x > 10
\* the closure a FilterOperator was built with
FilterClosure(id, x) == IF id = 0 THEN FilterP(x) ELSE FilterQ(x)
\* flat_map(g): g = |v| vec![v; v]
FlatMapG(v) == [i \in 1 .. v |-> v]
\* flat_map(g): g = |v| 0..v, whose outputs differ from each other
FlatMapRange(v) == [i \in 1 .. v |-> i - 1]
\* the closure a FlatMapOperator was built with
FlatMapClosure(id, v) == IF id = 0 THEN FlatMapG(v) ELSE FlatMapRange(v)

\* ------------------------------------------------------------- operators
\* An operator's process answers [out |-> Vec<Record>, n |-> the limit counters]

\* MapOperator::process stamping the output afresh instead of record.timestamp
MapProcessRestamped(rec, n) ==
    [out |-> <<Rec(MapF(rec.data), 0)>>, n |-> n]

\* MapOperator::process
MapProcess(rec, n) ==
    [out |-> <<Rec(MapF(rec.data), rec.timestamp)>>, n |-> n]

\* FilterOperator::process with the closure of DataStream::filter
FilterProcess(id, rec, n) ==
    [out |-> IF FilterClosure(id, rec.data) THEN <<rec>> ELSE <<>>, n |-> n]

\* FlatMapOperator::process
FlatMapProcess(id, rec, n) ==
    [out |-> [i \in 1 .. Len(FlatMapClosure(id, rec.data)) |->
                 Rec(FlatMapClosure(id, rec.data)[i], rec.timestamp)],
     n |-> n]

\* the closure of DataStream::limit without its n.load() > 0 test
LimitProcessUnguarded(id, rec, n) ==
    [out |-> <<rec>>, n |-> [n EXCEPT ![id] = n[id] - 1]]

\* FilterOperator::process with the closure of DataStream::limit: counter id.
\* The counter is an AtomicUsize; the model keeps the mathematical value of
\* n - 1, so a fetch_sub that would wrap shows up as a negative counter.
LimitProcess(id, rec, n) ==
    IF n[id] > 0
    THEN [out |-> <<rec>>, n |-> [n EXCEPT ![id] = n[id] - 1]]
    ELSE [out |-> <<>>, n |-> n]

\* Operator::process, dispatched on the operator's kind
Process(op, rec, n) ==
    CASE op.kind = "map"      -> MapProcess(rec, n)
      [] op.kind = "filter"   -> FilterProcess(op.id, rec, n)
      [] op.kind = "flat_map" -> FlatMapProcess(op.id, rec, n)
      [] op.kind = "limit"    -> LimitProcess(op.id, rec, n)

\* for rec in records { processed.extend(op.process(rec)?) }
RECURSIVE ProcessEach(_, _, _)
Extend(first, rest) == [out |-> first.out \o rest.out, n |-> rest.n]
ProcessEachFrom(op, records, first) ==
    Extend(first, ProcessEach(op, Tail(records), first.n))
ProcessEach(op, records, n) ==
    IF records = <<>> THEN [out |-> <<>>, n |-> n]
    ELSE ProcessEachFrom(op, records, Process(op, Head(records), n))

\* ---------------------------------------------------------------- sources
\* The state a call of next() reads and writes, threaded through the layers:
\*   data (the script left), clock, n (limit counters), emitted (history)
SrcState(data, clock, n, emitted) ==
    [data |-> data, clock |-> clock, n |-> n, emitted |-> emitted]

\* The innermost source: CollectionSource::next pops the front and stamps it
\* with the wall clock; a scripted source may also answer Err(..).
CollectionNext(st) ==
    IF st.data = <<>> THEN Res("none", NoRec, st)
    ELSE LET it == Head(st.data)
             popped == [st EXCEPT !.data = Tail(st.data)]
         IN  IF it.tag = "rec"
             THEN LET rec == Rec(it.data, st.clock + 1)
                  IN  Res("some", rec,
                          [popped EXCEPT !.clock = st.clock + 1,
                                         !.emitted = Append(st.emitted, rec)])
             ELSE Res(it.tag, NoRec, popped)

\* for op in &self.operators { ...; if processed.is_empty() { <stop> } }
\* answers [out, n, empty]: empty is TRUE when some operator emptied the set
RECURSIVE RunOperators(_, _, _)
RunOperatorsProcessed(ops, processed) ==
    IF processed.out = <<>>
    THEN [out |-> <<>>, n |-> processed.n, empty |-> TRUE]
    ELSE RunOperators(Tail(ops), processed.out, processed.n)
RunOperators(ops, records, n) ==
    IF ops = <<>> THEN [out |-> records, n |-> n, empty |-> FALSE]
    ELSE RunOperatorsProcessed(ops, ProcessEach(Head(ops), records, n))

\* Ok(final_results.into_iter().next())
FinalResult(final_results, st) ==
    IF final_results = <<>> THEN Res("none", NoRec, st)
    ELSE Res("some", Head(final_results), st)

RECURSIVE SourceNext(_, _)

\* TransformSourceWithOperator::next, lines 92-100: the trailing operator
\* processes every surviving record; the first result is returned
TransformSourceWithOperatorFinal(r, fin) ==
    FinalResult(fin.out, [r.st EXCEPT !.n = fin.n])

\* TransformSourceWithOperator::next, lines 64-90: r is the inner source's
\* Some(record), pre what the T -> T operators made of it
TransformSourceWithOperatorChain(src, r, pre) ==
    IF pre.empty
    THEN SourceNext(src, [r.st EXCEPT !.n = pre.n])     \* return self.next().await
    ELSE TransformSourceWithOperatorFinal(r, ProcessEach(src.operator, pre.out, pre.n))

\* TransformSourceWithOperator::next, lines 52-62: r is source.next().await
TransformSourceWithOperatorRecord(src, r) ==
    IF r.tag # "some" THEN r                            \* `?` and Ok(None)
    ELSE TransformSourceWithOperatorChain(src, r,
             RunOperators(src.operators, <<r.rec>>, r.st.n))

\* TransformSourceWithOperator::next
TransformSourceWithOperatorNext(src, st) ==
    TransformSourceWithOperatorRecord(src, SourceNext(src.inner, st))

\* dyn Source::next: the collection source or a fused layer
SourceNext(src, st) ==
    IF src.kind = "collection" THEN CollectionNext(st)
    ELSE TransformSourceWithOperatorNext(src, st)

\* for op in &self.operators of TransformSource::next: each operator sees the
\* first result of the one before; answers [cur, n, filtered_out]
RECURSIVE ApplyInSequence(_, _, _)
ApplyInSequenceResults(ops, results) ==
    IF results.out = <<>>
    THEN [cur |-> NoRec, n |-> results.n, filtered_out |-> TRUE]
    ELSE ApplyInSequence(Tail(ops), results.out[1], results.n)
ApplyInSequence(ops, rec, n) ==
    IF ops = <<>> THEN [cur |-> rec, n |-> n, filtered_out |-> FALSE]
    ELSE ApplyInSequenceResults(ops, Process(Head(ops), rec, n))

RECURSIVE TransformSourceNext(_, _, _)

\* TransformSource::next returning Ok(None) for a filtered record
TransformSourceMatchNoContinue(inner, ops, r, a) ==
    IF a.filtered_out
    THEN Res("none", NoRec, [r.st EXCEPT !.n = a.n])
    ELSE Res("some", a.cur, [r.st EXCEPT !.n = a.n])

\* TransformSource::next, lines 69-74: a is what the operators made of r
TransformSourceMatch(inner, ops, r, a) ==
    IF a.filtered_out
    THEN TransformSourceNext(inner, ops, [r.st EXCEPT !.n = a.n])   \* continue
    ELSE Res("some", a.cur, [r.st EXCEPT !.n = a.n])

\* TransformSource::next answering Ok(None) when the inner source says Wait
TransformSourceRecordWaitEnds(inner, ops, r) ==
    IF r.tag = "wait" THEN [r EXCEPT !.tag = "none"]
    ELSE IF r.tag # "some" THEN r
    ELSE TransformSourceMatch(inner, ops, r, ApplyInSequence(ops, r.rec, r.st.n))

\* TransformSource::next, lines 42-76: r is source.next().await
TransformSourceRecord(inner, ops, r) ==
    IF r.tag # "some" THEN r
    ELSE TransformSourceMatch(inner, ops, r, ApplyInSequence(ops, r.rec, r.st.n))

\* TransformSource::next: loop until a record survives or the source ends
TransformSourceNext(inner, ops, st) ==
    TransformSourceRecord(inner, ops, SourceNext(inner, st))

\* ------------------------------------------------- retry and backpressure
Some(x) == <<x>>
None == <<>>

NoRetry == [kind |-> "NoRetry", delay |-> 0, max_attempts |-> 0]
Fixed(delay, max_attempts) ==
    [kind |-> "Fixed", delay |-> delay, max_attempts |-> max_attempts]
\* `delay` holds initial_delay
ExponentialBackoff(initial_delay, max_delay, max_attempts, multiplier) ==
    [kind |-> "ExponentialBackoff", delay |-> initial_delay, max_delay |-> max_delay,
     max_attempts |-> max_attempts, multiplier |-> multiplier]

\* RetryStrategy::get_delay allowing two attempts fewer
GetDelayShort(strategy, attempt) ==
    IF strategy.kind = "NoRetry" THEN None
    ELSE IF attempt + 2 < strategy.max_attempts THEN Some(strategy.delay)
    ELSE None

\* RetryStrategy::get_delay retrying once more
GetDelayOnceMore(strategy, attempt) ==
    IF strategy.kind = "NoRetry" THEN None
    ELSE IF attempt <= strategy.max_attempts THEN Some(strategy.delay)
    ELSE None

\* multiplier.powi(attempt)
RECURSIVE Powi(_, _)
Powi(multiplier, attempt) ==
    IF attempt = 0 THEN 1 ELSE multiplier * Powi(multiplier, attempt - 1)

\* RetryStrategy::get_delay
GetDelay(strategy, attempt) ==
    CASE strategy.kind = "NoRetry" -> None
      [] strategy.kind = "Fixed" ->
             IF attempt < strategy.max_attempts THEN Some(strategy.delay) ELSE None
      [] strategy.kind = "ExponentialBackoff" ->
             IF attempt < strategy.max_attempts
             THEN Some(Min(strategy.delay * Powi(strategy.multiplier, attempt),
                           strategy.max_delay))
             ELSE None

Block == [kind |-> "Block", high_watermark |-> 0, backoff |-> 0]
DropOldest == [kind |-> "DropOldest", high_watermark |-> 0, backoff |-> 0]
DropNewest == [kind |-> "DropNewest", high_watermark |-> 0, backoff |-> 0]
Throttle(high, backoff) ==
    [kind |-> "Throttle", high_watermark |-> high, backoff |-> backoff]

\* BackpressureController::should_apply_backpressure
ShouldApplyBackpressure(strategy, current_load) ==
    CASE strategy.kind = "Block" -> current_load > 0
      [] strategy.kind \in {"DropOldest", "DropNewest"} -> FALSE
      [] strategy.kind = "Throttle" -> current_load >= strategy.high_watermark

\* BackpressureController::get_backoff
GetBackoff(strategy) ==
    IF strategy.kind = "Throttle" THEN Some(strategy.backoff) ELSE None

\* ------------------------------------------------ the machines when unused
DSIdle ==
    /\ ds_phase = "idle"
    /\ ds_stream = <<>>
    /\ ds_calls = <<>>
    /\ ds_input = <<>>
    /\ ds_data = <<>>
    /\ ds_clock = 0
    /\ ds_n = <<>>
    /\ ds_emitted = <<>>
    /\ ds_sunk = <<>>
    /\ ds_flushed = FALSE
    /\ ds_closed = FALSE
    /\ ds_ret = "none"

PLIdle ==
    /\ pl_status = "Ready"
    /\ pl_pc = "idle"
    /\ pl_ret = "none"
    /\ pl_input = <<>>
    /\ pl_source = <<>>
    /\ pl_clock = 0
    /\ pl_emitted = <<>>
    /\ pl_operators = <<>>
    /\ pl_retry = NoRetry
    /\ pl_backpressure = Block
    /\ pl_load = 0
    /\ pl_window = None
    /\ pl_last_watermark = 0
    /\ pl_op = 0
    /\ pl_current = <<>>
    /\ pl_next = <<>>
    /\ pl_records = <<>>
    /\ pl_success = TRUE
    /\ pl_attempt = 0
    /\ pl_sink = <<>>
    /\ pl_flushed = FALSE
    /\ pl_closed = FALSE
    /\ pl_processed = 0
    /\ pl_failed = 0
    /\ pl_faulted = FALSE
    /\ pl_dropped = {}
    /\ pl_abandoned = <<>>
    /\ pl_fails = 0
    /\ pl_triggers = 0
    /\ pl_timer_count = 0

RTIdle ==
    /\ rt_returned = FALSE
    /\ rt_parallelism = 0
    /\ rt_buffer_size = 0
    /\ rt_operators = <<>>
    /\ rt_input = <<>>
    /\ rt_source = <<>>
    /\ rt_clock = 0
    /\ rt_emitted = <<>>
    /\ rt_src = [pc |-> "idle", hand |-> NoRec]
    /\ rt_queue = <<>>
    /\ rt_worker = <<>>
    /\ rt_oplock = <<>>
    /\ rt_sink_pc = "idle"
    /\ rt_sink_hand = NoRec
    /\ rt_sink = <<>>
    /\ rt_flushes = 0
    /\ rt_closes = 0
    /\ rt_faulted = FALSE

\* HashMap::new()
EmptyMap == [key \in {} |-> 0]

WNIdle ==
    /\ wn_pc = "idle"
    /\ wn_window = [kind |-> "Global", size |-> 0, slide |-> 0]
    /\ wn_kind = "none"
    /\ wn_k = 0
    /\ wn_clock = 0
    /\ wn_inputs = <<>>
    /\ wn_state = EmptyMap
    /\ wn_outputs = <<>>
    /\ wn_sunk = <<>>

WRIdle ==
    /\ wr_pc = "idle"
    /\ wr_window = [window_type |-> [kind |-> "Global", size |-> 0, slide |-> 0],
                    allow_lateness |-> 0]
    /\ wr_now = 0
    /\ wr_buffer = EmptyMap
    /\ wr_inputs = <<>>
    /\ wr_last = "none"
    /\ wr_before = EmptyMap
    /\ wr_results = <<>>
    /\ wr_triggers = 0

ERIdle ==
    /\ er_pc = "idle"
    /\ er_strategy = NoRetry
    /\ er_attempt = 0
    /\ er_outcomes = <<>>
    /\ er_slept = <<>>
    /\ er_ret = None

KSIdle ==
    /\ ks_state = EmptyMap
    /\ ks_lock = [readers |-> {}, writer |-> 0]
    /\ ks_torn = FALSE
    /\ ks_thread = <<>>
    /\ ks_calls = <<>>

GAIdle ==
    /\ ga_pc = "idle"
    /\ ga_start_date = 0
    /\ ga_end_date = None
    /\ ga_cur_date = 0
    /\ ga_cur_hour = 0
    /\ ga_visited = <<>>
    /\ ga_served = FALSE

BSIdle ==
    /\ bs_pc = "idle"
    /\ bs_buffer_size = 0
    /\ bs_buffer = <<>>
    /\ bs_inner = <<>>
    /\ bs_written = 0
    /\ bs_acked = <<>>
    /\ bs_last = [op |-> "none", ret |-> "ok", failed |-> "none"]
    /\ bs_calls = 0

\* ------------------------------------------------------ DataStream builder
Op(kind, id) == [kind |-> kind, id |-> id]
Call(name, arg) == [name |-> name, arg |-> arg]

\* DataStream::new
DataStreamNew == [source |-> [kind |-> "collection"], operators |-> <<>>]

\* DataStream::transform: fuse source + operators + operator into a new
\* source; the new stream's operator vector is empty
\* DataStream::transform leaving the pending filters on the new stream
TransformDefersFilters(stream, operator) ==
    [source |-> [kind |-> "transform", inner |-> stream.source,
                 operator |-> operator, operators |-> <<>>],
     operators |-> stream.operators]

Transform(stream, operator) ==
    [source |-> [kind |-> "transform", inner |-> stream.source,
                 operator |-> operator, operators |-> stream.operators],
     operators |-> <<>>]

\* DataStream::filter: push onto self.operators
Filter(stream, operator) ==
    [stream EXCEPT !.operators = Append(@, operator)]

DSInit ==
    /\ ds_phase = "build"
    /\ ds_stream = DataStreamNew
    /\ ds_calls = <<>>
    /\ ds_data \in Scripts
    /\ ds_input = ds_data
    /\ ds_clock = 0
    /\ ds_n = <<>>
    /\ ds_emitted = <<>>
    /\ ds_sunk = <<>>
    /\ ds_flushed = FALSE
    /\ ds_closed = FALSE
    /\ ds_ret = "none"
    /\ PLIdle
    /\ RTIdle
    /\ WNIdle
    /\ WRIdle
    /\ ERIdle
    /\ KSIdle
    /\ GAIdle
    /\ BSIdle

CanCall == ds_phase = "build" /\ Len(ds_calls) < MaxCalls

\* stream.map(f)
CallMap ==
    /\ UNCHANGED notDS
    /\ CanCall
    /\ ds_stream' = Transform(ds_stream, Op("map", 0))
    /\ ds_calls' = Append(ds_calls, Call("map", 0))
    /\ UNCHANGED <<ds_phase, ds_input, ds_data, ds_clock, ds_n, ds_emitted, ds_sunk,
                   ds_flushed, ds_closed, ds_ret>>

\* stream.filter(p) or stream.filter(q)
CallFilter ==
    /\ UNCHANGED notDS
    /\ CanCall
    /\ \E id \in {0, 1} :
          /\ ds_stream' = Filter(ds_stream, Op("filter", id))
          /\ ds_calls' = Append(ds_calls, Call("filter", id))
    /\ UNCHANGED <<ds_phase, ds_input, ds_data, ds_clock, ds_n, ds_emitted, ds_sunk,
                   ds_flushed, ds_closed, ds_ret>>

\* stream.flat_map(g)
CallFlatMap ==
    /\ UNCHANGED notDS
    /\ CanCall
    /\ ds_stream' = Transform(ds_stream, Op("flat_map", 0))
    /\ ds_calls' = Append(ds_calls, Call("flat_map", 0))
    /\ UNCHANGED <<ds_phase, ds_input, ds_data, ds_clock, ds_n, ds_emitted, ds_sunk,
                   ds_flushed, ds_closed, ds_ret>>

\* stream.limit(n): a fresh AtomicUsize(n) captured by a filter closure
CallLimit ==
    /\ UNCHANGED notDS
    /\ CanCall
    /\ \E n \in 0 .. MaxLimit :
          /\ ds_n' = Append(ds_n, n)
          /\ ds_stream' = Filter(ds_stream, Op("limit", Len(ds_n) + 1))
          /\ ds_calls' = Append(ds_calls, Call("limit", n))
    /\ UNCHANGED <<ds_phase, ds_input, ds_data, ds_clock, ds_emitted, ds_sunk,
                   ds_flushed, ds_closed, ds_ret>>

\* stream.sink(k) is entered: TransformSource::new + set_operators
SinkStart ==
    /\ UNCHANGED notDS
    /\ ds_phase = "build"
    /\ ds_phase' = "run"
    /\ UNCHANGED <<ds_stream, ds_calls, ds_input, ds_data, ds_clock, ds_n, ds_emitted,
                   ds_sunk, ds_flushed, ds_closed, ds_ret>>

\* One turn of the loop of DataStream::sink: source.next() and its match.
\* The sink's write may answer Ok or Err.
SinkLoop ==
    /\ UNCHANGED notDS
    /\ ds_phase = "run"
    /\ LET r == TransformSourceNext(ds_stream.source, ds_stream.operators,
                     SrcState(ds_data, ds_clock, ds_n, ds_emitted))
       IN  /\ ds_data' = r.st.data
           /\ ds_clock' = r.st.clock
           /\ ds_n' = r.st.n
           /\ ds_emitted' = r.st.emitted
           /\ \/ /\ r.tag = "some"                 \* sink.write(record) is Ok
                 /\ ds_sunk' = Append(ds_sunk, r.rec)
                 /\ UNCHANGED <<ds_phase, ds_ret>>
              \/ /\ r.tag = "some"                 \* sink.write(record)? is Err
                 /\ ds_phase' = "done"
                 /\ ds_ret' = "err"
                 /\ UNCHANGED ds_sunk
              \/ /\ r.tag \in {"none", "eof"}       \* break
                 /\ ds_phase' = "flush"
                 /\ UNCHANGED <<ds_sunk, ds_ret>>
              \/ /\ r.tag = "wait"                 \* sleep, then loop
                 /\ UNCHANGED <<ds_phase, ds_sunk, ds_ret>>
              \/ /\ r.tag = "err"                  \* return Err(e)
                 /\ ds_phase' = "done"
                 /\ ds_ret' = "err"
                 /\ UNCHANGED ds_sunk
    /\ UNCHANGED <<ds_stream, ds_calls, ds_input, ds_flushed, ds_closed>>

\* sink.flush().await?
SinkFlush ==
    /\ UNCHANGED notDS
    /\ ds_phase = "flush"
    /\ \/ /\ ds_flushed' = TRUE
          /\ ds_phase' = "close"
          /\ UNCHANGED ds_ret
       \/ /\ ds_phase' = "done"
          /\ ds_ret' = "err"
          /\ UNCHANGED ds_flushed
    /\ UNCHANGED <<ds_stream, ds_calls, ds_input, ds_data, ds_clock, ds_n, ds_emitted,
                   ds_sunk, ds_closed>>

\* sink.close().await is the value of DataStream::sink
SinkClose ==
    /\ UNCHANGED notDS
    /\ ds_phase = "close"
    /\ ds_phase' = "done"
    /\ \/ /\ ds_closed' = TRUE
          /\ ds_ret' = "ok"
       \/ /\ ds_ret' = "err"
          /\ UNCHANGED ds_closed
    /\ UNCHANGED <<ds_stream, ds_calls, ds_input, ds_data, ds_clock, ds_n, ds_emitted,
                   ds_sunk, ds_flushed>>

DSNext ==
    \/ CallMap
    \/ CallFilter
    \/ CallFlatMap
    \/ CallLimit
    \/ SinkStart
    \/ SinkLoop
    \/ SinkFlush
    \/ SinkClose

SpecStream == DSInit /\ [][DSNext]_vars

\* ------------------------------------------------------ Pipeline::execute
\* The operators a Pipeline<usize> is given: Operator<T, T> only
PipelineOps == {Op("filter", 0), Op("flat_map", 1)}
OperatorChains == SeqsUpTo(PipelineOps, MaxOps)
SourceScripts == SeqsUpTo(Items, MaxSrc)
RetryStrategies == {NoRetry} \cup {Fixed(1, k) : k \in 1 .. MaxAttempts}
BackpressureStrategies ==
    {Block, DropOldest, DropNewest} \cup {Throttle(h, 1) : h \in 1 .. MaxHigh}
WindowConfigs == {None, Some([watermark_delay |-> 1])}

\* Pipeline::source(s).add_operator(..).sink(k).window(..)
\*     .with_retry_strategy(..).with_backpressure_strategy(..)
PLInit ==
    /\ pl_status = "Ready"
    /\ pl_pc = "ready"
    /\ pl_ret = "none"
    /\ pl_source \in SourceScripts
    /\ pl_input = pl_source
    /\ pl_clock = 0
    /\ pl_emitted = <<>>
    /\ pl_operators \in OperatorChains
    /\ pl_retry \in RetryStrategies
    /\ pl_backpressure \in BackpressureStrategies
    /\ pl_load = 0
    /\ pl_window \in WindowConfigs
    /\ pl_last_watermark = 0
    /\ pl_op = 0
    /\ pl_current = <<>>
    /\ pl_next = <<>>
    /\ pl_records = <<>>
    /\ pl_success = TRUE
    /\ pl_attempt = 0
    /\ pl_sink = <<>>
    /\ pl_flushed = FALSE
    /\ pl_closed = FALSE
    /\ pl_processed = 0
    /\ pl_failed = 0
    /\ pl_faulted = FALSE
    /\ pl_dropped = {}
    /\ pl_abandoned = <<>>
    /\ pl_fails = 0
    /\ pl_triggers = 0
    /\ pl_timer_count = 0
    /\ DSIdle
    /\ RTIdle
    /\ WNIdle
    /\ WRIdle
    /\ ERIdle
    /\ KSIdle
    /\ GAIdle
    /\ BSIdle

plConfig == <<pl_input, pl_operators, pl_retry, pl_backpressure, pl_window>>
plCycle == <<pl_op, pl_current, pl_next, pl_records, pl_success, pl_attempt>>
plSinkState == <<pl_sink, pl_flushed, pl_closed>>
plCounters == <<pl_processed, pl_failed>>
plHistory == <<pl_dropped, pl_abandoned, pl_fails>>
plMeters == <<pl_triggers, pl_timer_count>>
plSourceState == <<pl_source, pl_clock, pl_emitted>>

\* return Err(e): execute() ends where it stands
ReturnErr ==
    /\ pl_pc' = "returned"
    /\ pl_ret' = "err"

\* self.status = Running; source.init(), op.init() and sink.init() of the
\* collection source, the built-in operators and the sink answer Ok(())
ExecuteStart ==
    /\ pl_pc = "ready"
    /\ pl_status' = "Running"
    /\ pl_pc' = "loop"
    /\ UNCHANGED <<pl_ret, plConfig, plSourceState, plCycle, plSinkState,
                   plCounters, pl_load, pl_last_watermark, pl_faulted,
                   plHistory, plMeters, notPL>>

\* the test at the top of the loop: brake and a backoff to sleep for
Braking ==
    /\ ShouldApplyBackpressure(pl_backpressure, pl_load)
    /\ GetBackoff(pl_backpressure) # None

\* time::sleep(backoff) is entered
BackpressureSleep ==
    /\ pl_pc = "loop"
    /\ Braking
    /\ pl_pc' = "sleep"
    /\ UNCHANGED <<pl_status, pl_ret, plConfig, plSourceState, plCycle,
                   plSinkState, plCounters, pl_load, pl_last_watermark,
                   pl_faulted, plHistory, plMeters, notPL>>

\* the sleep is over: continue
BackpressureContinue ==
    /\ pl_pc = "sleep"
    /\ pl_pc' = "loop"
    /\ UNCHANGED <<pl_status, pl_ret, plConfig, plSourceState, plCycle,
                   plSinkState, plCounters, pl_load, pl_last_watermark,
                   pl_faulted, plHistory, plMeters, notPL>>

\* the state in which the first operator that has records to process starts
\* its `for record in current_records`, or, with none left (or no records),
\* the state after the `for op` loop: update_load(records.len())
AfterOperator(i, recs) ==
    IF i <= Len(pl_operators) /\ recs # <<>>
    THEN /\ pl_pc' = "ops"
         /\ pl_op' = i
         /\ pl_current' = recs
         /\ pl_next' = <<>>
         /\ pl_records' = <<>>
         /\ UNCHANGED pl_load
    ELSE /\ pl_pc' = "write"
         /\ pl_op' = 0
         /\ pl_current' = <<>>
         /\ pl_next' = <<>>
         /\ pl_records' = recs
         /\ pl_load' = Len(recs)

\* what source.next() answers and the source it leaves
PollResult == CollectionNext(SrcState(pl_source, pl_clock, <<>>, pl_emitted))

\* result = self.source.next() is chosen by select!
PollSource ==
    /\ pl_pc = "loop"
    /\ ~Braking
    /\ pl_source' = PollResult.st.data
    /\ pl_clock' = PollResult.st.clock
    /\ pl_emitted' = PollResult.st.emitted
    /\ \/ /\ PollResult.tag = "some"             \* Ok(Some(record))
          /\ AfterOperator(1, <<PollResult.rec>>)
          /\ pl_success' = TRUE
          /\ pl_attempt' = 0
          /\ UNCHANGED <<pl_ret, pl_failed>>
       \/ /\ PollResult.tag = "none"             \* Ok(None) => break
          /\ pl_pc' = "flush"
          /\ UNCHANGED <<pl_ret, pl_failed, pl_load, plCycle>>
       \/ /\ PollResult.tag \in {"wait", "eof", "err"}      \* Err(e)
          /\ pl_failed' = pl_failed + 1
          /\ ReturnErr
          /\ UNCHANGED <<pl_load, plCycle>>
    /\ UNCHANGED <<pl_status, plConfig, plSinkState, pl_processed,
                   pl_last_watermark, pl_faulted, plHistory, plMeters, notPL>>

\* records.pop() takes the last element
Last(recs) == recs[Len(recs)]
Front(recs) == SubSeq(recs, 1, Len(recs) - 1)

\* process_with_retry: op.process(record) answers Ok(results)
ProcessOk ==
    /\ pl_pc = "ops"
    /\ LET results == Process(pl_operators[pl_op], Head(pl_current), <<>>).out
       IN  IF Tail(pl_current) # <<>>
           THEN /\ pl_next' = pl_next \o results
                /\ pl_current' = Tail(pl_current)
                /\ UNCHANGED <<pl_pc, pl_op, pl_records, pl_load>>
           ELSE AfterOperator(pl_op + 1, pl_next \o results)     \* records = next
    /\ pl_attempt' = 0
    /\ UNCHANGED <<pl_status, pl_ret, plConfig, plSourceState, pl_success,
                   plSinkState, plCounters, pl_last_watermark, pl_faulted, plHistory, plMeters, notPL>>

\* the Err arm of process_with_retry without `success = false`: what the
\* operator had produced so far is written
ProcessErrKeepsResults ==
    /\ pl_pc = "ops"
    /\ pl_faulted' = TRUE
    /\ pl_fails' = Max(pl_fails, pl_attempt + 1)
    /\ IF GetDelay(pl_retry, pl_attempt) # None
       THEN /\ pl_attempt' = pl_attempt + 1
            /\ UNCHANGED <<pl_pc, pl_op, pl_current, pl_next, pl_records,
                           pl_success, pl_load, pl_failed, pl_dropped>>
       ELSE /\ pl_failed' = pl_failed + 1
            /\ pl_dropped' = pl_dropped \cup {Last(pl_emitted).timestamp}
            /\ pl_attempt' = 0
            /\ pl_pc' = "write"
            /\ pl_op' = 0
            /\ pl_current' = <<>>
            /\ pl_next' = <<>>
            /\ pl_records' = pl_next \o <<Head(pl_current)>>
            /\ pl_load' = Len(pl_next) + 1
            /\ UNCHANGED pl_success
    /\ UNCHANGED <<pl_status, pl_ret, plConfig, plSourceState, plSinkState,
                   pl_processed, pl_last_watermark, pl_abandoned, plMeters, notPL>>

\* process_with_retry: op.process(record) answers Err; ErrorHandler::retry
\* sleeps and tries again, or gives the error up to execute()
ProcessErr ==
    /\ pl_pc = "ops"
    /\ pl_faulted' = TRUE
    /\ pl_fails' = Max(pl_fails, pl_attempt + 1)
    /\ IF GetDelay(pl_retry, pl_attempt) # None
       THEN /\ pl_attempt' = pl_attempt + 1
            /\ UNCHANGED <<pl_pc, pl_op, pl_current, pl_next, pl_records,
                           pl_success, pl_load, pl_failed, pl_dropped>>
       ELSE /\ pl_failed' = pl_failed + 1
            /\ pl_dropped' = pl_dropped \cup {Last(pl_emitted).timestamp}
            /\ pl_success' = FALSE
            /\ pl_attempt' = 0
            /\ pl_pc' = "write"              \* break; break; records was taken
            /\ pl_op' = 0
            /\ pl_current' = <<>>
            /\ pl_next' = <<>>
            /\ pl_records' = <<>>
            /\ pl_load' = 0
    /\ UNCHANGED <<pl_status, pl_ret, plConfig, plSourceState, plSinkState,
                   pl_processed, pl_last_watermark, pl_abandoned, plMeters, notPL>>

Writing == pl_pc = "write" /\ pl_success /\ pl_records # <<>>

\* write_with_retry: sink.write(record) answers Ok
WriteOk ==
    /\ Writing
    /\ pl_sink' = Append(pl_sink, Last(pl_records))
    /\ pl_records' = Front(pl_records)
    /\ pl_processed' = pl_processed + 1
    /\ pl_attempt' = 0
    /\ UNCHANGED <<pl_status, pl_pc, pl_ret, plConfig, plSourceState, pl_op,
                   pl_current, pl_next, pl_success, pl_flushed, pl_closed,
                   pl_failed, pl_load, pl_last_watermark, pl_faulted, plHistory, plMeters, notPL>>

\* the Err arm of write_with_retry leaving the `while let` loop: the rest
\* of the fan-out is never written
WriteErrBreaks ==
    /\ Writing
    /\ pl_faulted' = TRUE
    /\ pl_fails' = Max(pl_fails, pl_attempt + 1)
    /\ IF GetDelay(pl_retry, pl_attempt) # None
       THEN /\ pl_attempt' = pl_attempt + 1
            /\ UNCHANGED <<pl_records, pl_failed, pl_abandoned>>
       ELSE /\ pl_failed' = pl_failed + 1
            /\ pl_abandoned' = Append(pl_abandoned, Last(pl_records))
            /\ pl_records' = <<>>
            /\ pl_attempt' = 0
    /\ UNCHANGED <<pl_status, pl_pc, pl_ret, plConfig, plSourceState, pl_op,
                   pl_current, pl_next, pl_success, plSinkState, pl_processed,
                   pl_load, pl_last_watermark, pl_dropped, plMeters, notPL>>

\* write_with_retry: sink.write(record) answers Err; retried or abandoned
WriteErr ==
    /\ Writing
    /\ pl_faulted' = TRUE
    /\ pl_fails' = Max(pl_fails, pl_attempt + 1)
    /\ IF GetDelay(pl_retry, pl_attempt) # None
       THEN /\ pl_attempt' = pl_attempt + 1
            /\ UNCHANGED <<pl_records, pl_failed, pl_abandoned>>
       ELSE /\ pl_failed' = pl_failed + 1
            /\ pl_abandoned' = Append(pl_abandoned, Last(pl_records))
            /\ pl_records' = Front(pl_records)
            /\ pl_attempt' = 0
    /\ UNCHANGED <<pl_status, pl_pc, pl_ret, plConfig, plSourceState, pl_op,
                   pl_current, pl_next, pl_success, plSinkState, pl_processed,
                   pl_load, pl_last_watermark, pl_dropped, plMeters, notPL>>

\* strong references to the process_time Timer: the one Metrics::timer keeps
\* in its map and the clone it answers, kept in Pipeline.process_timer
ProcessTimerStrong == 2

\* Arc::get_mut: a mutable reference only when no other Arc shares the value
ArcGetMut(strong) == IF strong = 1 THEN Some("timer") ELSE None

\* if let Some(timer) = ... { timer.record(start.elapsed()) }
TimerRecordIfSome(timer, count) == IF timer # None THEN count + 1 ELSE count

\* the end of the Ok(Some(record)) arm: back to the top of the loop
EndCycle ==
    /\ pl_pc = "write"
    /\ ~Writing
    /\ pl_pc' = "loop"
    /\ pl_timer_count' = TimerRecordIfSome(ArcGetMut(ProcessTimerStrong), pl_timer_count)
    /\ UNCHANGED <<pl_status, pl_ret, plConfig, plSourceState, plCycle,
                   plSinkState, plCounters, pl_load, pl_last_watermark,
                   pl_faulted, plHistory, pl_triggers, notPL>>

\* Pipeline::process_watermark, lines 132-150: the clock is read only when a
\* window config is set; answers the new last_watermark and whether the
\* operators' on_window_trigger ran
ProcessWatermarkAlways(window_config, last_watermark, now) ==
    [last_watermark |-> now, triggered |-> TRUE]

ProcessWatermark(window_config, last_watermark, now) ==
    IF window_config # None
          /\ now - last_watermark >= window_config[1].watermark_delay
    THEN [last_watermark |-> now, triggered |-> TRUE]
    ELSE [last_watermark |-> last_watermark, triggered |-> FALSE]

\* _ = watermark_interval.tick() is chosen by select!. SystemTime::now() may
\* answer less than an earlier reading; pl_clock keeps the latest one. The
\* built-in operators answer on_window_trigger with no records.
WatermarkTick ==
    /\ pl_pc = "loop"
    /\ ~Braking
    /\ \E now \in 0 .. pl_clock + 1 :
          /\ now <= MaxNow
          /\ pl_clock' = IF pl_window = None THEN pl_clock ELSE Max(pl_clock, now)
          /\ pl_last_watermark' =
                 ProcessWatermark(pl_window, pl_last_watermark, now).last_watermark
          /\ pl_triggers' =
                 IF ProcessWatermark(pl_window, pl_last_watermark, now).triggered
                 THEN pl_triggers + 1 ELSE pl_triggers
    /\ UNCHANGED <<pl_status, pl_pc, pl_ret, plConfig, pl_source, pl_emitted,
                   plCycle, plSinkState, plCounters, pl_load, pl_faulted, plHistory,
                   pl_timer_count, notPL>>

\* self.sink.flush().await?
ExecuteFlush ==
    /\ pl_pc = "flush"
    /\ \/ /\ pl_flushed' = TRUE
          /\ pl_pc' = "close"
          /\ UNCHANGED <<pl_ret, pl_faulted>>
       \/ /\ ReturnErr
          /\ pl_faulted' = TRUE
          /\ UNCHANGED pl_flushed
    /\ UNCHANGED <<pl_status, plConfig, plSourceState, plCycle, pl_sink,
                   pl_closed, plCounters, pl_load, pl_last_watermark, plHistory, plMeters, notPL>>

\* self.sink.close().await?; self.status = Completed; Ok(())
ExecuteClose ==
    /\ pl_pc = "close"
    /\ \/ /\ pl_closed' = TRUE
          /\ pl_status' = "Completed"
          /\ pl_pc' = "returned"
          /\ pl_ret' = "ok"
          /\ UNCHANGED pl_faulted
       \/ /\ ReturnErr
          /\ pl_faulted' = TRUE
          /\ UNCHANGED <<pl_closed, pl_status>>
    /\ UNCHANGED <<plConfig, plSourceState, plCycle, pl_sink, pl_flushed,
                   plCounters, pl_load, pl_last_watermark, plHistory, plMeters, notPL>>

PLNext ==
    \/ ExecuteStart
    \/ BackpressureSleep
    \/ BackpressureContinue
    \/ PollSource
    \/ ProcessOk
    \/ ProcessErr
    \/ WriteOk
    \/ WriteErr
    \/ EndCycle
    \/ WatermarkTick
    \/ ExecuteFlush
    \/ ExecuteClose

SpecPipeline == PLInit /\ [][PLNext]_vars

\* The one task that runs execute() is scheduled while it can take a step,
\* a ready source.next() is eventually chosen by select!, and sleeps end.
PLFairness ==
    /\ WF_vars(ExecuteStart)
    /\ WF_vars(BackpressureSleep)
    /\ WF_vars(BackpressureContinue)
    /\ WF_vars(PollSource)
    /\ WF_vars(ProcessOk)
    /\ WF_vars(WriteOk)
    /\ WF_vars(EndCycle)
    /\ WF_vars(ExecuteFlush)
    /\ WF_vars(ExecuteClose)

FairSpecPipeline == PLInit /\ [][PLNext]_vars /\ PLFairness

\* ------------------------------------------ RuntimeContext::execute_pipeline
\* The state once execute_pipeline has created the channels and spawned the
\* source task, `parallelism` workers per operator and the sink task; the
\* tasks run from here on, and execute_pipeline itself has yet to return.
RtStages == 1 .. Len(rt_operators)
RtWorkers == 1 .. rt_parallelism
RtLast == Len(rt_operators) + 1

RtTask(pc, hand, out) == [pc |-> pc, hand |-> hand, out |-> out]

RTInit ==
    /\ rt_returned = FALSE
    /\ rt_parallelism \in 1 .. MaxPar
    /\ rt_buffer_size \in 1 .. MaxBuf
    /\ rt_operators \in SeqsUpTo(PipelineOps, MaxStages)
    /\ rt_source \in SeqsUpTo(Items, MaxRtLen)
    /\ rt_input = rt_source
    /\ rt_clock = 0
    /\ rt_emitted = <<>>
    /\ rt_src = [pc |-> "next", hand |-> NoRec]
    /\ rt_queue = [i \in 1 .. RtLast |-> <<>>]
    /\ rt_worker = [s \in RtStages |-> [w \in RtWorkers |-> RtTask("recv", NoRec, <<>>)]]
    /\ rt_oplock = [s \in RtStages |-> 0]
    /\ rt_sink_pc = "recv"
    /\ rt_sink_hand = NoRec
    /\ rt_sink = <<>>
    /\ rt_flushes = 0
    /\ rt_closes = 0
    /\ rt_faulted = FALSE
    /\ DSIdle
    /\ PLIdle
    /\ WNIdle
    /\ WRIdle
    /\ ERIdle
    /\ KSIdle
    /\ GAIdle
    /\ BSIdle

rtConfig == <<rt_parallelism, rt_buffer_size, rt_operators, rt_input>>
rtSourceState == <<rt_source, rt_clock, rt_emitted>>
rtSinkState == <<rt_sink_pc, rt_sink_hand, rt_sink, rt_flushes, rt_closes>>

\* execute_pipeline stores the handles and returns Ok(()); its own `tx` is
\* dropped with it
ExecutePipelineReturn ==
    /\ rt_src.pc # "idle"
    /\ ~rt_returned
    /\ rt_returned' = TRUE
    /\ UNCHANGED <<rtConfig, rtSourceState, rt_src, rt_queue, rt_worker,
                   rt_oplock, rtSinkState, rt_faulted, notRT>>

\* mpsc: a channel that counts as closed once one of its Senders is dropped
ClosedByFirstSender(i) ==
    IF i = 1 THEN rt_src.pc = "done" \/ rt_returned
    ELSE \E w \in RtWorkers : rt_worker[i - 1][w].pc = "done"

\* mpsc: every Sender of channel i has been dropped. Channel 1 has the
\* source task's clone and execute_pipeline's own tx; channel s + 1 has one
\* clone per worker of stage s.
Closed(i) ==
    IF i = 1 THEN rt_src.pc = "done" /\ rt_returned
    ELSE \A w \in RtWorkers : rt_worker[i - 1][w].pc = "done"

\* a channel without a capacity: send always completes
CanSendAlways(i) == TRUE

\* tx.send(record).await completes only while the channel has capacity. The
\* Receiver outlives every Sender (it is dropped only after recv answered
\* None), so send never answers Err.
CanSend(i) == Len(rt_queue[i]) < rt_buffer_size

\* a channel that hands out the newest record first
SendFront(i, record) == [rt_queue EXCEPT ![i] = <<record>> \o @]

\* tx.send(record): the record joins the end of channel i
Send(i, record) == [rt_queue EXCEPT ![i] = Append(@, record)]

\* what source_guard.next() answers and the source it leaves
RtPollResult == CollectionNext(SrcState(rt_source, rt_clock, <<>>, rt_emitted))

\* the source task: match source_guard.next().await
SourceTaskNext ==
    /\ rt_src.pc = "next"
    /\ rt_source' = RtPollResult.st.data
    /\ rt_clock' = RtPollResult.st.clock
    /\ rt_emitted' = RtPollResult.st.emitted
    /\ rt_src' = IF RtPollResult.tag = "some"
                 THEN [pc |-> "send", hand |-> RtPollResult.rec]    \* Ok(Some(record))
                 ELSE [pc |-> "close", hand |-> NoRec]              \* _ => break
    /\ UNCHANGED <<rt_returned, rtConfig, rt_queue, rt_worker, rt_oplock,
                   rtSinkState, rt_faulted, notRT>>

\* the source task: tx.send(record).await
SourceTaskSend ==
    /\ rt_src.pc = "send"
    /\ CanSend(1)
    /\ rt_queue' = Send(1, rt_src.hand)
    /\ rt_src' = [pc |-> "next", hand |-> NoRec]
    /\ UNCHANGED <<rt_returned, rtConfig, rtSourceState, rt_worker, rt_oplock,
                   rtSinkState, rt_faulted, notRT>>

\* the source task: source_guard.close() and the end of the task
SourceTaskClose ==
    /\ rt_src.pc = "close"
    /\ rt_src' = [pc |-> "done", hand |-> NoRec]
    /\ UNCHANGED <<rt_returned, rtConfig, rtSourceState, rt_queue, rt_worker,
                   rt_oplock, rtSinkState, rt_faulted, notRT>>

\* a worker: rx.lock().await; rx.recv().await answers Some(r)
WorkerRecv(s, w) ==
    /\ rt_worker[s][w].pc = "recv"
    /\ rt_queue[s] # <<>>
    /\ rt_worker' = [rt_worker EXCEPT ![s][w] = RtTask("lock", Head(rt_queue[s]), <<>>)]
    /\ rt_queue' = [rt_queue EXCEPT ![s] = Tail(@)]
    /\ UNCHANGED <<rt_returned, rtConfig, rtSourceState, rt_src, rt_oplock,
                   rtSinkState, rt_faulted, notRT>>

\* a worker: rx.recv().await answers None => break
WorkerExit(s, w) ==
    /\ rt_worker[s][w].pc = "recv"
    /\ rt_queue[s] = <<>>
    /\ Closed(s)
    /\ rt_worker' = [rt_worker EXCEPT ![s][w] = RtTask("done", NoRec, <<>>)]
    /\ UNCHANGED <<rt_returned, rtConfig, rtSourceState, rt_src, rt_queue,
                   rt_oplock, rtSinkState, rt_faulted, notRT>>

\* a worker that forwards only the first of the results
AfterProcessFirstOnly(s, w, results) ==
    IF results = <<>>
    THEN /\ rt_worker' = [rt_worker EXCEPT ![s][w] = RtTask("recv", NoRec, <<>>)]
         /\ UNCHANGED rt_oplock
    ELSE /\ rt_worker' = [rt_worker EXCEPT ![s][w] = RtTask("send", NoRec, <<Head(results)>>)]
         /\ rt_oplock' = [rt_oplock EXCEPT ![s] = w]

\* the worker's state once op.process(record) answered Ok(results): it
\* keeps the operator's lock while it sends them
AfterProcess(s, w, results) ==
    IF results = <<>>
    THEN /\ rt_worker' = [rt_worker EXCEPT ![s][w] = RtTask("recv", NoRec, <<>>)]
         /\ UNCHANGED rt_oplock
    ELSE /\ rt_worker' = [rt_worker EXCEPT ![s][w] = RtTask("send", NoRec, results)]
         /\ rt_oplock' = [rt_oplock EXCEPT ![s] = w]

\* a worker: operator.lock().await; op.process(record).await
WorkerProcess(s, w) ==
    /\ rt_worker[s][w].pc = "lock"
    /\ rt_oplock[s] = 0
    /\ \/ /\ AfterProcess(s, w, Process(rt_operators[s], rt_worker[s][w].hand, <<>>).out)
          /\ UNCHANGED rt_faulted
       \/ /\ rt_worker' = [rt_worker EXCEPT ![s][w] = RtTask("recv", NoRec, <<>>)]   \* Err: skipped
          /\ rt_faulted' = TRUE
          /\ UNCHANGED rt_oplock
    /\ UNCHANGED <<rt_returned, rtConfig, rtSourceState, rt_src, rt_queue,
                   rtSinkState, notRT>>

\* a worker: tx.send(result).await for the next of its results
WorkerSend(s, w) ==
    /\ rt_worker[s][w].pc = "send"
    /\ CanSend(s + 1)
    /\ rt_queue' = Send(s + 1, Head(rt_worker[s][w].out))
    /\ IF Tail(rt_worker[s][w].out) = <<>>
       THEN /\ rt_worker' = [rt_worker EXCEPT ![s][w] = RtTask("recv", NoRec, <<>>)]
            /\ rt_oplock' = [rt_oplock EXCEPT ![s] = 0]
       ELSE /\ rt_worker' = [rt_worker EXCEPT ![s][w].out = Tail(@)]
            /\ UNCHANGED rt_oplock
    /\ UNCHANGED <<rt_returned, rtConfig, rtSourceState, rt_src, rtSinkState,
                   rt_faulted, notRT>>

\* the sink task: rx.recv().await answers Some(record), or None
SinkTaskRecv ==
    /\ rt_sink_pc = "recv"
    /\ \/ /\ rt_queue[RtLast] # <<>>
          /\ rt_sink_hand' = Head(rt_queue[RtLast])
          /\ rt_queue' = [rt_queue EXCEPT ![RtLast] = Tail(@)]
          /\ rt_sink_pc' = "write"
       \/ /\ rt_queue[RtLast] = <<>>
          /\ Closed(RtLast)
          /\ rt_sink_pc' = "flush"
          /\ UNCHANGED <<rt_sink_hand, rt_queue>>
    /\ UNCHANGED <<rt_returned, rtConfig, rtSourceState, rt_src, rt_worker,
                   rt_oplock, rt_sink, rt_flushes, rt_closes, rt_faulted, notRT>>

\* the sink task: let _ = sink_guard.write(record).await
SinkTaskWrite ==
    /\ rt_sink_pc = "write"
    /\ \/ /\ rt_sink' = Append(rt_sink, rt_sink_hand)
          /\ UNCHANGED rt_faulted
       \/ /\ rt_faulted' = TRUE                  \* Err: ignored
          /\ UNCHANGED rt_sink
    /\ rt_sink_pc' = "recv"
    /\ rt_sink_hand' = NoRec
    /\ UNCHANGED <<rt_returned, rtConfig, rtSourceState, rt_src, rt_queue,
                   rt_worker, rt_oplock, rt_flushes, rt_closes, notRT>>

\* the sink task: let _ = sink_guard.flush().await
SinkTaskFlush ==
    /\ rt_sink_pc = "flush"
    /\ rt_flushes' = rt_flushes + 1
    /\ rt_sink_pc' = "close"
    /\ UNCHANGED <<rt_returned, rtConfig, rtSourceState, rt_src, rt_queue,
                   rt_worker, rt_oplock, rt_sink_hand, rt_sink, rt_closes,
                   rt_faulted, notRT>>

\* the sink task: let _ = sink_guard.close().await and the end of the task
SinkTaskClose ==
    /\ rt_sink_pc = "close"
    /\ rt_closes' = rt_closes + 1
    /\ rt_sink_pc' = "done"
    /\ UNCHANGED <<rt_returned, rtConfig, rtSourceState, rt_src, rt_queue,
                   rt_worker, rt_oplock, rt_sink_hand, rt_sink, rt_flushes,
                   rt_faulted, notRT>>

RTNext ==
    \/ ExecutePipelineReturn
    \/ SourceTaskNext
    \/ SourceTaskSend
    \/ SourceTaskClose
    \/ \E s \in RtStages : \E w \in RtWorkers : WorkerRecv(s, w)
    \/ \E s \in RtStages : \E w \in RtWorkers : WorkerExit(s, w)
    \/ \E s \in RtStages : \E w \in RtWorkers : WorkerProcess(s, w)
    \/ \E s \in RtStages : \E w \in RtWorkers : WorkerSend(s, w)
    \/ SinkTaskRecv
    \/ SinkTaskWrite
    \/ SinkTaskFlush
    \/ SinkTaskClose

SpecRuntime == RTInit /\ [][RTNext]_vars

\* tokio::spawn: while the runtime lives, a task that can take a step is
\* polled again, and execute_pipeline runs to its return; every step uses up
\* part of the finite run, so it is enough that some enabled step is taken
RTFairness == WF_vars(RTNext)

FairSpecRuntime == SpecRuntime /\ RTFairness

\* ------------------------------------------------------------- windows
Tumbling(size) == [kind |-> "Tumbling", size |-> size, slide |-> 0]
Sliding(size, slide) == [kind |-> "Sliding", size |-> size, slide |-> slide]
Session(gap) == [kind |-> "Session", size |-> gap, slide |-> 0]
Global == [kind |-> "Global", size |-> 0, slide |-> 0]

\* i64 `/` truncates toward zero
TruncDiv(a, b) == IF a >= 0 THEN a \div b ELSE -((-a) \div b)

\* the same range with the filter `timestamp - start <= size_ms`
RECURSIVE SlidingStartsInclusive(_, _, _, _, _)
SlidingStartsInclusive(start, latest, timestamp, size, slide) ==
    IF start > latest THEN <<>>
    ELSE (IF timestamp - start <= size THEN <<start>> ELSE <<>>)
             \o SlidingStartsInclusive(start + slide, latest, timestamp, size, slide)

\* (earliest_window..=latest_window).step_by(slide)
\*     .filter(|&start| timestamp - start < size_ms)
RECURSIVE SlidingStarts(_, _, _, _, _)
SlidingStarts(start, latest, timestamp, size, slide) ==
    IF start > latest THEN <<>>
    ELSE (IF timestamp - start < size THEN <<start>> ELSE <<>>)
             \o SlidingStarts(start + slide, latest, timestamp, size, slide)

\* WindowType::get_common_windows
GetCommonWindows(wt, timestamp) ==
    CASE wt.kind = "Tumbling" -> <<TruncDiv(timestamp, wt.size) * wt.size>>
      [] wt.kind = "Sliding" ->
             SlidingStarts(TruncDiv(timestamp - wt.size, wt.slide) * wt.slide,
                           TruncDiv(timestamp, wt.slide) * wt.slide,
                           timestamp, wt.size, wt.slide)
      [] wt.kind = "Session" -> <<TruncDiv(timestamp, wt.size)>>
      [] wt.kind = "Global" -> <<0>>

\* WindowType::get_affected_windows
GetAffectedWindows(wt, timestamp) == GetCommonWindows(wt, timestamp)

\* `ts as u64`: the u64 of value wrap * 2^64 + v
AsU64(x) == IF x >= 0 THEN [wrap |-> 0, v |-> x] ELSE [wrap |-> 1, v |-> x]

\* WindowType::get_window_keys
GetWindowKeys(wt, timestamp) ==
    [i \in 1 .. Len(GetCommonWindows(wt, timestamp)) |->
        AsU64(GetCommonWindows(wt, timestamp)[i])]

\* KeyedStateBackend::get
StateGet(state, key) == IF key \in DOMAIN state THEN Some(state[key]) ELSE None

\* KeyedStateBackend::set
StateSet(state, key, value) ==
    [x \in DOMAIN state \cup {key} |-> IF x = key THEN value ELSE state[x]]

\* BinaryHeap<Reverse<T>> as the sequence of its elements
RECURSIVE MinOf(_)
MinOf(h) == IF Len(h) = 1 THEN h[1] ELSE Min(h[1], MinOf(Tail(h)))
RECURSIVE MaxOf(_)
MaxOf(h) == IF Len(h) = 1 THEN h[1] ELSE Max(h[1], MaxOf(Tail(h)))
RECURSIVE RemoveFirst(_, _)
RemoveFirst(h, x) ==
    IF h = <<>> THEN <<>>
    ELSE IF h[1] = x THEN Tail(h)
    ELSE <<h[1]>> \o RemoveFirst(Tail(h), x)

\* heap.push(Reverse(v))
HeapPush(heap, v) == Append(heap, v)

\* heap.pop() of a heap of Reverse: the greatest Reverse(v) is the least v
HeapPop(heap) == RemoveFirst(heap, MinOf(heap))

\* the closure of top_k whose pop drops the largest value
TopKFoldDropsLargest(k, heap, v) ==
    IF Len(HeapPush(heap, v)) > k
    THEN RemoveFirst(HeapPush(heap, v), MaxOf(HeapPush(heap, v)))
    ELSE HeapPush(heap, v)

\* the closure top_k hands to aggregate
TopKFold(k, heap, v) ==
    IF Len(HeapPush(heap, v)) > k THEN HeapPop(HeapPush(heap, v)) ELSE HeapPush(heap, v)

\* the closure top_k hands to map: heap.into_sorted_vec() is ascending in
\* Reverse(v), that is descending in v
RECURSIVE TopKMap(_)
TopKMap(heap) ==
    IF heap = <<>> THEN <<>>
    ELSE <<MaxOf(heap)>> \o TopKMap(RemoveFirst(heap, MaxOf(heap)))

\* top_k_by_key(n, f): f = |v| v / 2, so that 0 and 1 share a key
KeyF(v) == v \div 2

\* kvs.entry(k).or_default().push(value)
EntryPush(kvs, k, value) ==
    [x \in DOMAIN kvs \cup {k} |->
        IF x = k THEN Append(IF k \in DOMAIN kvs THEN kvs[k] ELSE <<>>, value)
        ELSE kvs[x]]

\* a bucket that gives up its oldest value
BucketPopFirst(kvs, k) ==
    IF k \in DOMAIN kvs /\ kvs[k] # <<>> THEN [kvs EXCEPT ![k] = Tail(@)] ELSE kvs

\* kvs.get_mut(&min_k).map(|v| v.pop()): Vec::pop takes the last value
BucketPop(kvs, k) ==
    IF k \in DOMAIN kvs /\ kvs[k] # <<>>
    THEN [kvs EXCEPT ![k] = SubSeq(@, 1, Len(@) - 1)] ELSE kvs

\* the closure top_k_by_key hands to aggregate (windowed_stream.rs 152-164)
TopKByKeyOverflow(n, pushed) ==
    IF Len(pushed.keys) > n
    THEN [keys |-> HeapPop(pushed.keys), kvs |-> BucketPop(pushed.kvs, MinOf(pushed.keys))]
    ELSE pushed
TopKByKeyFold(n, acc, value) ==
    TopKByKeyOverflow(n, [keys |-> HeapPush(acc.keys, KeyF(value)),
                          kvs |-> EntryPush(acc.kvs, KeyF(value), value)])

\* kvs.remove(&k).unwrap_or_default()
BucketOf(kvs, k) == IF k \in DOMAIN kvs THEN kvs[k] ELSE <<>>
MapRemove(kvs, k) == [x \in DOMAIN kvs \ {k} |-> kvs[x]]

\* the closure top_k_by_key hands to map (165-174): the keys in descending
\* order, each taking its whole bucket out of the map
RECURSIVE TopKByKeyProject(_, _)
TopKByKeyProject(sorted, kvs) ==
    IF sorted = <<>> THEN <<>>
    ELSE BucketOf(kvs, Head(sorted))
             \o TopKByKeyProject(Tail(sorted), MapRemove(kvs, Head(sorted)))
TopKByKeyMap(acc) == TopKByKeyProject(TopKMap(acc.keys), acc.kvs)

\* aggregate(init, f): the running sum aggregate(0, |acc, x| acc + x), or the
\* closure of top_k or top_k_by_key
\* "aggregate" is aggregate(0, |acc, x| acc + x); "fold" is
\* aggregate(1, |acc, x| 2 * acc + x), whose result depends on the order
AggInit(agg) ==
    CASE agg.kind = "top_k" -> <<>>
      [] agg.kind = "top_k_by_key" -> [keys |-> <<>>, kvs |-> EmptyMap]
      [] agg.kind = "fold" -> 1
      [] OTHER -> 0
AggF(agg, acc, x) ==
    CASE agg.kind = "top_k" -> TopKFold(agg.k, acc, x)
      [] agg.kind = "top_k_by_key" -> TopKByKeyFold(agg.k, acc, x)
      [] agg.kind = "fold" -> 2 * acc + x
      [] OTHER -> acc + x

\* WindowAggregator::process folding every record into init
NewValueFromInit(agg, state, key, record) ==
    AggF(agg, AggInit(agg), record.data)

\* WindowAggregator::process, lines 49-53: new_value for one window key
NewValue(agg, state, key, record) ==
    AggF(agg,
         IF StateGet(state, key) = None THEN AggInit(agg) ELSE StateGet(state, key)[1],
         record.data)

\* WindowAggregator::process, the `for window_key` loop
RECURSIVE AggregatorLoop(_, _, _, _, _)
AggregatorLoop(agg, keys, state, record, results) ==
    IF keys = <<>> THEN [out |-> results, state |-> state]
    ELSE AggregatorLoop(agg, Tail(keys),
             StateSet(state, Head(keys), NewValue(agg, state, Head(keys), record)),
             record,
             Append(results, Rec(NewValue(agg, state, Head(keys), record), record.timestamp)))

\* WindowAggregator::process
WindowAggregatorProcess(agg, wt, state, record) ==
    AggregatorLoop(agg, GetWindowKeys(wt, record.timestamp), state, record, <<>>)

\* any(p) / all(p): p = |x| x % 2 == 0
MatchP(x) == x % 2 = 0

\* WindowAnyOperator::process_window looking at the newest record only
AnyProcessWindowNewest(records) ==
    IF records = <<>> THEN None
    ELSE Some(Rec(MatchP(records[Len(records)].data), records[1].timestamp))

\* WindowAnyOperator::process_window
AnyProcessWindow(records) ==
    IF records = <<>> THEN None
    ELSE Some(Rec(\E i \in 1 .. Len(records) : MatchP(records[i].data),
                  records[1].timestamp))

\* WindowAllOperator::process_window looking at the newest record only
AllProcessWindowNewest(records) ==
    IF records = <<>> THEN None
    ELSE Some(Rec(MatchP(records[Len(records)].data), records[1].timestamp))

\* WindowAllOperator::process_window
AllProcessWindow(records) ==
    IF records = <<>> THEN None
    ELSE Some(Rec(\A i \in 1 .. Len(records) : MatchP(records[i].data),
                  records[1].timestamp))

ProcessWindow(kind, records) ==
    IF kind = "any" THEN AnyProcessWindow(records) ELSE AllProcessWindow(records)

\* self.buffer.entry(window_key).or_default().push(record.clone())
BufferPush(buffer, key, record) ==
    [x \in DOMAIN buffer \cup {key} |->
        IF x = key
        THEN (IF key \in DOMAIN buffer THEN Append(buffer[key], record) ELSE <<record>>)
        ELSE buffer[x]]

\* WindowAnyOperator::process / WindowAllOperator::process, the
\* `for window_key` loop
RECURSIVE MatchLoop(_, _, _, _, _)
MatchLoop(kind, keys, buffer, record, results) ==
    IF keys = <<>> THEN [out |-> results, state |-> buffer]
    ELSE MatchLoop(kind, Tail(keys), BufferPush(buffer, Head(keys), record), record,
             results \o ProcessWindow(kind, BufferPush(buffer, Head(keys), record)[Head(keys)]))

\* WindowAnyOperator::process / WindowAllOperator::process
WindowMatchProcess(kind, wt, buffer, record) ==
    MatchLoop(kind, GetAffectedWindows(wt, record.timestamp), buffer, record, <<>>)

\* Ord::cmp
Cmp(a, b) == IF a < b THEN "Less" ELSE IF a = b THEN "Equal" ELSE "Greater"

\* the comparator sort(ord) hands to sort_by
SortF(ord, v1, v2) == IF ord = "Asc" THEN Cmp(v1, v2) ELSE Cmp(v2, v1)

\* the closure WindowTimestampSorter hands to binary_search_by
SortTsF(ord, prob, record) ==
    IF ord = "Asc" THEN Cmp(prob.timestamp, record.timestamp)
    ELSE Cmp(record.timestamp, prob.timestamp)

\* slice::binary_search_by(f).unwrap_or_else(|i| i) on a slice sorted under
\* f: the index of any element f calls Equal (which one is left to the
\* library), or the insertion point when there is none; f[i] is f(&slice[i])
BinarySearchBy(f) ==
    IF \E i \in 1 .. Len(f) : f[i] = "Equal"
    THEN {i - 1 : i \in {j \in 1 .. Len(f) : f[j] = "Equal"}}
    ELSE {Cardinality({j \in 1 .. Len(f) : f[j] = "Less"})}

\* Vec::insert that overwrites the element at index
InsertOverwrites(vec, index, element) ==
    IF index < Len(vec) THEN [vec EXCEPT ![index + 1] = element]
    ELSE Append(vec, element)

\* Vec::insert(index, element), index counted from 0
Insert(vec, index, element) ==
    SubSeq(vec, 1, index) \o <<element>> \o SubSeq(vec, index + 1, Len(vec))

\* self.state.get(&window_key).unwrap_or_default()
Current(state, key) ==
    IF StateGet(state, key) = None THEN <<>> ELSE StateGet(state, key)[1]

\* the indexes binary_search_by may answer for one window key
\* (window_sorter.rs 47-49 and 104-109)
SorterIndexes(kind, state, key, record) ==
    CASE kind = "sort_asc" ->
             BinarySearchBy([i \in 1 .. Len(Current(state, key)) |->
                                SortF("Asc", Current(state, key)[i], record.data)])
      [] kind = "sort_desc" ->
             BinarySearchBy([i \in 1 .. Len(Current(state, key)) |->
                                SortF("Desc", Current(state, key)[i], record.data)])
      [] kind = "sort_by_ts_asc" ->
             BinarySearchBy([i \in 1 .. Len(Current(state, key)) |->
                                SortTsF("Asc", Current(state, key)[i], record)])
      [] kind = "sort_by_ts_desc" ->
             BinarySearchBy([i \in 1 .. Len(Current(state, key)) |->
                                SortTsF("Desc", Current(state, key)[i], record)])

\* what the sorter keeps per window: the values (WindowSorter) or the whole
\* records (WindowTimestampSorter)
SorterElement(kind, record) ==
    IF kind \in {"sort_asc", "sort_desc"} THEN record.data ELSE record

\* the data of the result: the vector itself (WindowSorter) or the data of
\* its records (WindowTimestampSorter, lines 118-124)
SorterData(kind, current) ==
    IF kind \in {"sort_asc", "sort_desc"} THEN current
    ELSE [i \in 1 .. Len(current) |-> current[i].data]

\* WindowSorter::process / WindowTimestampSorter::process, the
\* `for window_key` loop; index[m] is what binary_search_by answered for the
\* m-th key
RECURSIVE SorterLoop(_, _, _, _, _, _)
SorterLoop(kind, keys, state, record, index, results) ==
    IF keys = <<>> THEN [out |-> results, state |-> state]
    ELSE SorterLoop(kind, Tail(keys),
             StateSet(state, Head(keys),
                 Insert(Current(state, Head(keys)), Head(index), SorterElement(kind, record))),
             record, Tail(index),
             Append(results,
                 Rec(SorterData(kind,
                         Insert(Current(state, Head(keys)), Head(index),
                                SorterElement(kind, record))),
                     record.timestamp)))

\* WindowSorter::process / WindowTimestampSorter::process
WindowSorterProcess(kind, wt, state, record, index) ==
    SorterLoop(kind, GetWindowKeys(wt, record.timestamp), state, record, index, <<>>)

\* skip that also drops the newest record
SkipNewest(records, n) == SubSeq(records, n + 1, Len(records) - 1)

\* records.iter().skip(n).cloned().collect()
Skip(records, n) == SubSeq(records, n + 1, Len(records))

\* WindowSkipper::process, the `for window_key` loop
RECURSIVE SkipperLoop(_, _, _, _, _)
SkipperLoop(n, keys, buffer, record, results) ==
    IF keys = <<>> THEN [out |-> results, state |-> buffer]
    ELSE SkipperLoop(n, Tail(keys), BufferPush(buffer, Head(keys), record.data), record,
             Append(results,
                 Rec(Skip(BufferPush(buffer, Head(keys), record.data)[Head(keys)], n),
                     record.timestamp)))

\* WindowSkipper::process
WindowSkipperProcess(n, wt, buffer, record) ==
    SkipperLoop(n, GetWindowKeys(wt, record.timestamp), buffer, record, <<>>)

SortKinds == {"sort_asc", "sort_desc", "sort_by_ts_asc", "sort_by_ts_desc"}

\* the answers of binary_search_by, one per window key of the record; the
\* other operators search nothing
SearchAnswers(kind, wt, state, record) ==
    IF kind \in SortKinds
    THEN {index \in [1 .. Len(GetWindowKeys(wt, record.timestamp)) -> 0 .. MaxFeed] :
             \A m \in DOMAIN index :
                 index[m] \in SorterIndexes(kind, state,
                                  GetWindowKeys(wt, record.timestamp)[m], record)}
    ELSE {<<>>}

\* the operator the combinator built, applied to one record
WindowProcess(kind, k, wt, state, record, index) ==
    CASE kind \in {"any", "all"} -> WindowMatchProcess(kind, wt, state, record)
      [] kind \in SortKinds -> WindowSorterProcess(kind, wt, state, record, index)
      [] kind = "skip" -> WindowSkipperProcess(k, wt, state, record)
      [] OTHER -> WindowAggregatorProcess([kind |-> kind, k |-> k], wt, state, record)

\* ------------------- DataStream::new(source).window(cfg).<op>.sink(k)
WindowTypes == {Global, Tumbling(2), Sliding(2, 1), Sliding(1, 2), Session(2)}

WNInit ==
    /\ wn_pc = "run"
    /\ wn_window \in WindowTypes
    /\ wn_kind \in {"aggregate", "fold", "any", "all", "top_k", "top_k_by_key", "skip"}
                   \cup SortKinds
    /\ wn_k \in IF wn_kind \in {"top_k", "top_k_by_key", "skip"} THEN 0 .. MaxK ELSE {0}
    /\ wn_clock = 0
    /\ wn_inputs = <<>>
    /\ wn_state = EmptyMap
    /\ wn_outputs = <<>>
    /\ wn_sunk = <<>>
    /\ DSIdle
    /\ PLIdle
    /\ RTIdle
    /\ WRIdle
    /\ ERIdle
    /\ KSIdle
    /\ GAIdle
    /\ BSIdle

\* top_k is aggregate(..).map(..): the MapOperator of the outer fused source
WindowMapped(kind, rec) ==
    CASE kind = "top_k" -> Rec(TopKMap(rec.data), rec.timestamp)
      [] kind = "top_k_by_key" -> Rec(TopKByKeyMap(rec.data), rec.timestamp)
      [] OTHER -> rec

\* what the fused source answers to sink's source.next(): the first of the
\* window operator's results (mapped, for top_k), or Ok(None)
WindowNext(kind, results) ==
    IF FinalResult(results, <<>>).tag = "some"
    THEN Some(WindowMapped(kind, FinalResult(results, <<>>).rec))
    ELSE None

\* the timestamps the source may give its next record: a collection source
\* stamps the wall clock; the sort_by_ts streams are fed by a source that
\* sets the timestamps itself (SlowSource of windowed_stream_test.rs)
Stamps(kind, clock) ==
    IF kind \in {"sort_by_ts_asc", "sort_by_ts_desc"} THEN 0 .. MaxTs ELSE clock .. MaxTs

\* one turn of the loop of DataStream::sink: the source hands out the next
\* record, the window operator processes it, and the sink writes what the
\* fused source answers; Ok(None) ends the loop
WindowSinkLoop ==
    /\ wn_pc = "run"
    /\ Len(wn_inputs) < MaxFeed
    /\ \E d \in Data : \E ts \in Stamps(wn_kind, wn_clock) :
       \E index \in SearchAnswers(wn_kind, wn_window, wn_state, Rec(d, ts)) :
          /\ wn_clock' = ts
          /\ wn_inputs' = Append(wn_inputs, Rec(d, ts))
          /\ wn_state' =
                 WindowProcess(wn_kind, wn_k, wn_window, wn_state, Rec(d, ts), index).state
          /\ wn_outputs' = Append(wn_outputs,
                 WindowProcess(wn_kind, wn_k, wn_window, wn_state, Rec(d, ts), index).out)
          /\ wn_sunk' = wn_sunk \o
                 WindowNext(wn_kind,
                     WindowProcess(wn_kind, wn_k, wn_window, wn_state, Rec(d, ts), index).out)
          /\ wn_pc' =
                 IF WindowProcess(wn_kind, wn_k, wn_window, wn_state, Rec(d, ts), index).out
                        = <<>>
                 THEN "done" ELSE "run"
    /\ UNCHANGED <<wn_window, wn_kind, wn_k, notWN>>

\* the source is exhausted: Ok(None), flush, close
WindowSinkEnd ==
    /\ wn_pc = "run"
    /\ wn_pc' = "done"
    /\ UNCHANGED <<wn_window, wn_kind, wn_k, wn_clock, wn_inputs, wn_state,
                   wn_outputs, wn_sunk, notWN>>

WNNext ==
    \/ WindowSinkLoop
    \/ WindowSinkEnd

SpecWindow == WNInit /\ [][WNNext]_vars

\* ------------------------------------------------- WindowReduceOperator
\* the reduce closure: |acc, x| 2 * acc + x (not commutative, so the order
\* of the fold shows)
ReduceFunc(acc, x) == 2 * acc + x

\* records[1..].iter().fold(first.data.clone(), |acc, record| func(acc, record.data))
RECURSIVE ReduceFold(_, _)
ReduceFold(acc, rest) ==
    IF rest = <<>> THEN acc
    ELSE ReduceFold(ReduceFunc(acc, Head(rest).data), Tail(rest))

\* WindowReduceOperator::process_window
ReduceProcessWindow(records) ==
    IF records = <<>> THEN None
    ELSE Some(Rec(ReduceFold(records[1].data, Tail(records)), records[1].timestamp))

\* WindowReduceOperator::process, the `for window_key` loop
RECURSIVE ReduceLoop(_, _, _, _)
ReduceLoop(keys, buffer, record, results) ==
    IF keys = <<>> THEN [out |-> results, state |-> buffer]
    ELSE ReduceLoop(Tail(keys), BufferPush(buffer, Head(keys), record), record,
             results \o ReduceProcessWindow(BufferPush(buffer, Head(keys), record)[Head(keys)]))

\* WindowReduceOperator::process
WindowReduceProcess(wt, buffer, record) ==
    ReduceLoop(GetAffectedWindows(wt, record.timestamp), buffer, record, <<>>)

\* the filter of on_window_trigger that forgets allow_lateness
ExpiredNoLateness(cfg, key, now) ==
    IF cfg.window_type.kind = "Global" THEN FALSE
    ELSE key + cfg.window_type.size <= now

\* the filter of on_window_trigger: Tumbling(duration), Sliding(size, _) and
\* Session(gap) keep their duration in `size` here
Expired(cfg, key, now) ==
    IF cfg.window_type.kind = "Global" THEN FALSE
    ELSE key + cfg.window_type.size + cfg.allow_lateness <= now

\* expired_keys as a set; buffer.keys() yields them in an order of its own
ExpiredKeys(cfg, buffer, now) == {key \in DOMAIN buffer : Expired(cfg, key, now)}

\* the orders in which a HashMap may yield the keys S
KeyOrders(S) ==
    {order \in [1 .. Cardinality(S) -> S] :
        \A a, b \in 1 .. Cardinality(S) : a # b => order[a] # order[b]}

\* self.buffer.remove(&key)
BufferRemove(buffer, key) == [x \in DOMAIN buffer \ {key} |-> buffer[x]]

\* on_window_trigger, the `for key in expired_keys` loop
RECURSIVE TriggerLoop(_, _, _)
TriggerLoop(keys, buffer, results) ==
    IF keys = <<>> THEN [out |-> results, state |-> buffer]
    ELSE IF Head(keys) \in DOMAIN buffer
    THEN TriggerLoop(Tail(keys), BufferRemove(buffer, Head(keys)),
             results \o ReduceProcessWindow(buffer[Head(keys)]))
    ELSE TriggerLoop(Tail(keys), buffer, results)

ReduceConfigs ==
    {[window_type |-> wt, allow_lateness |-> l] :
        wt \in {Global, Tumbling(2), Sliding(2, 1), Session(2)}, l \in 0 .. MaxLateness}

\* WindowReduceOperator::new(func, window)
WRInit ==
    /\ wr_pc = "run"
    /\ wr_window \in ReduceConfigs
    /\ wr_now = 0
    /\ wr_buffer = EmptyMap
    /\ wr_inputs = <<>>
    /\ wr_last = "none"
    /\ wr_before = EmptyMap
    /\ wr_results = <<>>
    /\ wr_triggers = 0
    /\ DSIdle
    /\ PLIdle
    /\ RTIdle
    /\ WNIdle
    /\ ERIdle
    /\ KSIdle
    /\ GAIdle
    /\ BSIdle

\* the caller hands process a record
ReduceProcess ==
    /\ wr_pc = "run"
    /\ Len(wr_inputs) < MaxFeed
    /\ \E d \in Data : \E ts \in 0 .. MaxTs :
          /\ wr_inputs' = Append(wr_inputs, Rec(d, ts))
          /\ wr_before' = wr_buffer
          /\ wr_buffer' = WindowReduceProcess(wr_window.window_type, wr_buffer, Rec(d, ts)).state
          /\ wr_results' = WindowReduceProcess(wr_window.window_type, wr_buffer, Rec(d, ts)).out
    /\ wr_last' = "process"
    /\ UNCHANGED <<wr_pc, wr_window, wr_now, wr_triggers, notWR>>

\* the caller invokes on_window_trigger; current_time() has not gone back
ReduceTrigger ==
    /\ wr_pc = "run"
    /\ wr_triggers < MaxTriggers
    /\ \E now \in wr_now .. MaxClock :
       \E order \in KeyOrders(ExpiredKeys(wr_window, wr_buffer, now)) :
          /\ wr_now' = now
          /\ wr_before' = wr_buffer
          /\ wr_buffer' = TriggerLoop(order, wr_buffer, <<>>).state
          /\ wr_results' = TriggerLoop(order, wr_buffer, <<>>).out
    /\ wr_last' = "trigger"
    /\ wr_triggers' = wr_triggers + 1
    /\ UNCHANGED <<wr_pc, wr_window, wr_inputs, notWR>>

WRNext ==
    \/ ReduceProcess
    \/ ReduceTrigger

SpecReduce == WRInit /\ [][WRNext]_vars

\* ------------------------------------------------- ErrorHandler::retry
RetryHandlers ==
    {NoRetry}
        \cup {Fixed(1, k) : k \in 0 .. MaxAttempts}
        \cup {ExponentialBackoff(1, 2, k, 2) : k \in 0 .. MaxAttempts}

\* ErrorHandler::new(strategy), and retry entered: attempt = 0
ERInit ==
    /\ er_pc = "call"
    /\ er_strategy \in RetryHandlers
    /\ er_attempt = 0
    /\ er_outcomes = <<>>
    /\ er_slept = <<>>
    /\ er_ret = None
    /\ DSIdle
    /\ PLIdle
    /\ RTIdle
    /\ WNIdle
    /\ WRIdle
    /\ KSIdle
    /\ GAIdle
    /\ BSIdle

\* operation() answers Ok(value): return Ok(value)
OperationOk ==
    /\ er_pc = "call"
    /\ \E value \in Data :
          /\ er_outcomes' = Append(er_outcomes, [tag |-> "ok", v |-> value])
          /\ er_ret' = Some([tag |-> "ok", v |-> value])
    /\ er_pc' = "returned"
    /\ UNCHANGED <<er_strategy, er_attempt, er_slept, notER>>

\* operation() answers Err(error): sleep if get_delay(attempt) is Some,
\* return Err(error) otherwise
OperationErr ==
    /\ er_pc = "call"
    /\ \E error \in Data :
          /\ er_outcomes' = Append(er_outcomes, [tag |-> "err", v |-> error])
          /\ IF GetDelay(er_strategy, er_attempt) # None
             THEN /\ er_pc' = "sleep"
                  /\ er_ret' = er_ret
             ELSE /\ er_pc' = "returned"
                  /\ er_ret' = Some([tag |-> "err", v |-> error])
    /\ UNCHANGED <<er_strategy, er_attempt, er_slept, notER>>

\* sleep(delay).await; attempt += 1
RetrySleep ==
    /\ er_pc = "sleep"
    /\ er_slept' = er_slept \o GetDelay(er_strategy, er_attempt)
    /\ er_attempt' = er_attempt + 1
    /\ er_pc' = "call"
    /\ UNCHANGED <<er_strategy, er_outcomes, er_ret, notER>>

ERNext ==
    \/ OperationOk
    \/ OperationErr
    \/ RetrySleep

SpecRetry == ERInit /\ [][ERNext]_vars

\* the operation is a synchronous call and the sleep is finite: whatever
\* step of retry is next is eventually taken
FairSpecRetry == SpecRetry /\ WF_vars(ERNext)

\* ------------------------------------------------- KeyedStateBackend
KsThreads == 1 .. MaxThreads
KsKeys == 0 .. MaxKey

\* a thread between calls, holding what its last get answered
KsIdle(got) == [pc |-> "idle", key |-> 0, value |-> 0, got |-> got]

\* KeyedStateBackend::new(), shared by MaxThreads threads
KSInit ==
    /\ ks_state = EmptyMap
    /\ ks_lock = [readers |-> {}, writer |-> 0]
    /\ ks_torn = FALSE
    /\ ks_thread = [t \in KsThreads |-> KsIdle(None)]
    /\ ks_calls = <<>>
    /\ DSIdle
    /\ PLIdle
    /\ RTIdle
    /\ WNIdle
    /\ WRIdle
    /\ ERIdle
    /\ GAIdle
    /\ BSIdle

\* RwLock::read() is granted whoever holds the lock
CanReadAlways == TRUE

\* RwLock::read() is granted while no writer holds the lock
CanRead == ks_lock.writer = 0

\* RwLock::write() is granted while nobody holds the lock
CanWrite == ks_lock.writer = 0 /\ ks_lock.readers = {}

\* .cloned(): the caller gets a value of its own, not a handle on the entry
Cloned(key, value) == [v |-> value, entry |-> None]

\* HashMap::get(key).cloned(); a map caught in the middle of an insert may
\* answer anything
Lookup(key) ==
    IF ks_torn
    THEN {None} \cup {Some(Cloned(key, v)) : v \in Data}
    ELSE IF key \in DOMAIN ks_state THEN {Some(Cloned(key, ks_state[key]))}
    ELSE {None}

\* the map after a caller has changed the value `got` it had from get
AfterChange(got, v) ==
    IF got[1].entry = None THEN ks_state
    ELSE [ks_state EXCEPT ![got[1].entry[1]] = v]

\* a thread calls get(key): self.state.read()
GetLock(t) ==
    /\ ks_thread[t].pc = "idle"
    /\ Len(ks_calls) + Cardinality({u \in KsThreads : ks_thread[u].pc # "idle"}) < MaxKsCalls
    /\ CanRead
    /\ \E key \in KsKeys :
          ks_thread' = [ks_thread EXCEPT ![t] = [pc |-> "read", key |-> key, value |-> 0,
                                                 got |-> ks_thread[t].got]]
    /\ ks_lock' = [ks_lock EXCEPT !.readers = @ \cup {t}]
    /\ UNCHANGED <<ks_state, ks_torn, ks_calls, notKS>>

\* .get(key).cloned() under the read guard
GetRead(t) ==
    /\ ks_thread[t].pc = "read"
    /\ \E got \in Lookup(ks_thread[t].key) :
          /\ ks_thread' = [ks_thread EXCEPT ![t].pc = "unlock", ![t].got = got]
          /\ ks_calls' = Append(ks_calls,
                 [op |-> "get", thread |-> t, key |-> ks_thread[t].key,
                  value |-> IF got = None THEN None ELSE Some(got[1].v)])
    /\ UNCHANGED <<ks_state, ks_lock, ks_torn, notKS>>

\* the read guard is dropped and get returns
GetReturn(t) ==
    /\ ks_thread[t].pc = "unlock"
    /\ ks_lock' = [ks_lock EXCEPT !.readers = @ \ {t}]
    /\ ks_thread' = [ks_thread EXCEPT ![t] = KsIdle(ks_thread[t].got)]
    /\ UNCHANGED <<ks_state, ks_torn, ks_calls, notKS>>

\* the caller changes the value it had from get
ChangeGot(t) ==
    /\ ks_thread[t].pc = "idle"
    /\ ks_thread[t].got # None
    /\ \E v \in Data :
          /\ v # ks_thread[t].got[1].v
          /\ ks_thread' = [ks_thread EXCEPT ![t].got = Some([@[1] EXCEPT !.v = v])]
          /\ ks_state' = AfterChange(ks_thread[t].got, v)
    /\ UNCHANGED <<ks_lock, ks_torn, ks_calls, notKS>>

\* a thread calls set(key, value): self.state.write()
SetLock(t) ==
    /\ ks_thread[t].pc = "idle"
    /\ Len(ks_calls) + Cardinality({u \in KsThreads : ks_thread[u].pc # "idle"}) < MaxKsCalls
    /\ CanWrite
    /\ \E key \in KsKeys : \E value \in Data :
          ks_thread' = [ks_thread EXCEPT ![t] = [pc |-> "insert", key |-> key,
                                                 value |-> value, got |-> ks_thread[t].got]]
    /\ ks_lock' = [ks_lock EXCEPT !.writer = t]
    /\ UNCHANGED <<ks_state, ks_torn, ks_calls, notKS>>

\* .insert(key, value) has begun to rearrange the map
InsertBegin(t) ==
    /\ ks_thread[t].pc = "insert"
    /\ ks_torn' = TRUE
    /\ ks_thread' = [ks_thread EXCEPT ![t].pc = "inserting"]
    /\ UNCHANGED <<ks_state, ks_lock, ks_calls, notKS>>

\* .insert(key, value) is done
InsertEnd(t) ==
    /\ ks_thread[t].pc = "inserting"
    /\ ks_torn' = FALSE
    /\ ks_state' = StateSet(ks_state, ks_thread[t].key, ks_thread[t].value)
    /\ ks_calls' = Append(ks_calls,
           [op |-> "set", thread |-> t, key |-> ks_thread[t].key,
            value |-> Some(ks_thread[t].value)])
    /\ ks_thread' = [ks_thread EXCEPT ![t].pc = "wunlock"]
    /\ UNCHANGED <<ks_lock, notKS>>

\* the write guard is dropped and set returns
SetReturn(t) ==
    /\ ks_thread[t].pc = "wunlock"
    /\ ks_lock' = [ks_lock EXCEPT !.writer = 0]
    /\ ks_thread' = [ks_thread EXCEPT ![t] = KsIdle(ks_thread[t].got)]
    /\ UNCHANGED <<ks_state, ks_torn, ks_calls, notKS>>

KSNext ==
    \/ \E t \in KsThreads : GetLock(t)
    \/ \E t \in KsThreads : GetRead(t)
    \/ \E t \in KsThreads : GetReturn(t)
    \/ \E t \in KsThreads : ChangeGot(t)
    \/ \E t \in KsThreads : SetLock(t)
    \/ \E t \in KsThreads : InsertBegin(t)
    \/ \E t \in KsThreads : InsertEnd(t)
    \/ \E t \in KsThreads : SetReturn(t)

SpecState == KSInit /\ [][KSNext]_vars

\* ------------------------------------------------- GithubArchiveSource
\* the last hour of a day, as advance_next and is_past_end_date spell it
LastHour == 23

\* is_past_end_date
IsPastEndDate(end_date, cur_date, cur_hour) ==
    IF end_date = None THEN FALSE
    ELSE cur_date > end_date[1] \/ (cur_date = end_date[1] /\ cur_hour >= LastHour)

\* from_date(start_date) then set_end_date(end_date), which refuses an end
\* date before the start date; init() has opened the first file
GAInit ==
    /\ ga_pc = "reading"
    /\ ga_start_date \in 0 .. MaxDate
    /\ ga_end_date \in {Some(d) : d \in ga_start_date .. MaxDate}
    /\ ga_cur_date = ga_start_date
    /\ ga_cur_hour = 0
    /\ ga_visited = <<[date |-> ga_start_date, hour |-> 0]>>
    /\ ga_served = FALSE
    /\ DSIdle
    /\ PLIdle
    /\ RTIdle
    /\ WNIdle
    /\ WRIdle
    /\ ERIdle
    /\ KSIdle
    /\ BSIdle

\* next(): read_line yields an event of the current file
ArchiveNextRecord ==
    /\ ga_pc = "reading"
    /\ ~ga_served
    /\ ga_served' = TRUE
    /\ UNCHANGED <<ga_pc, ga_start_date, ga_end_date, ga_cur_date, ga_cur_hour,
                   ga_visited, notGA>>

\* next(): read_line answers 0, the current file is at its end: advance_next
ArchiveEndOfFile ==
    /\ ga_pc = "reading"
    /\ ga_pc' = "advance"
    /\ UNCHANGED <<ga_start_date, ga_end_date, ga_cur_date, ga_cur_hour,
                   ga_visited, ga_served, notGA>>

\* advance_next: the next hour of the day, or the next day; the end date is
\* looked at only on the change of day, before cur_hour is set to 0; the
\* next file is opened, and a failure to open it advances once more
ArchiveAdvance ==
    /\ ga_pc = "advance"
    /\ IF ga_cur_hour < LastHour
       THEN /\ ga_cur_hour' = ga_cur_hour + 1
            /\ ga_cur_date' = ga_cur_date
            /\ ga_visited' = Append(ga_visited,
                   [date |-> ga_cur_date, hour |-> ga_cur_hour + 1])
            /\ \E opened \in BOOLEAN : ga_pc' = IF opened THEN "reading" ELSE "advance"
       ELSE /\ ga_cur_date' = ga_cur_date + 1
            /\ IF IsPastEndDate(ga_end_date, ga_cur_date + 1, ga_cur_hour)
               THEN /\ ga_cur_hour' = ga_cur_hour
                    /\ ga_visited' = ga_visited
                    /\ ga_pc' = "exhausted"
               ELSE /\ ga_cur_hour' = 0
                    /\ ga_visited' = Append(ga_visited,
                           [date |-> ga_cur_date + 1, hour |-> 0])
                    /\ \E opened \in BOOLEAN :
                          ga_pc' = IF opened THEN "reading" ELSE "advance"
    /\ ga_served' = FALSE
    /\ UNCHANGED <<ga_start_date, ga_end_date, notGA>>

GANext ==
    \/ ArchiveNextRecord
    \/ ArchiveEndOfFile
    \/ ArchiveAdvance

SpecArchive == GAInit /\ [][GANext]_vars

\* ------------------------------------------------- BufferedSink
\* A sink is used by one caller at a time (&mut self), so each call is one
\* step. `fail` says which call of the inner sink answers Err during the
\* step: 0 for none, k for the write of the k-th buffered record, one more
\* for the flush, one more again for the close.
InnerCall(kind, id) == [kind |-> kind, id |-> id]
InnerWrites(ids) == [i \in 1 .. Len(ids) |-> InnerCall("write", ids[i])]

\* BufferedSink::force_flush. `self.buffer.drain(..)` empties the Vec when the
\* Drain is dropped, also when `?` leaves the loop early: the record whose
\* write failed and all those behind it are gone.
ForceFlush(buffer, inner, fail) ==
    IF fail = 0 \/ fail > Len(buffer) + 1
    THEN [buffer |-> <<>>,
          inner |-> inner \o InnerWrites(buffer) \o <<InnerCall("flush", 0)>>,
          ret |-> "ok", failed |-> "none"]
    ELSE IF fail <= Len(buffer)
    THEN [buffer |-> <<>>,
          inner |-> inner \o InnerWrites(SubSeq(buffer, 1, fail - 1)),
          ret |-> "err", failed |-> "write"]
    ELSE [buffer |-> <<>>,                          \* self.inner.flush().await?
          inner |-> inner \o InnerWrites(buffer),
          ret |-> "err", failed |-> "flush"]

\* BufferedSink::write, lines 45-54; elapsed is
\* self.last_flush.elapsed() >= self.flush_interval
ShouldFlush(buffer, buffer_size, elapsed) == Len(buffer) >= buffer_size \/ elapsed

BufferedWrite(buffer, buffer_size, inner, record, elapsed, fail) ==
    IF ShouldFlush(Append(buffer, record), buffer_size, elapsed)
    THEN ForceFlush(Append(buffer, record), inner, fail)
    ELSE [buffer |-> Append(buffer, record), inner |-> inner,
          ret |-> "ok", failed |-> "none"]

\* BufferedSink::close: self.force_flush().await?; self.inner.close().await
BufferedClose(buffer, inner, fail) ==
    IF ForceFlush(buffer, inner, fail).ret = "err" THEN ForceFlush(buffer, inner, fail)
    ELSE IF fail = Len(buffer) + 2
    THEN [ForceFlush(buffer, inner, fail) EXCEPT !.ret = "err", !.failed = "close"]
    ELSE [ForceFlush(buffer, inner, fail) EXCEPT
              !.inner = @ \o <<InnerCall("close", 0)>>]

BSInit ==
    /\ bs_pc = "open"
    /\ bs_buffer_size \in 1 .. MaxBufferSize
    /\ bs_buffer = <<>>
    /\ bs_inner = <<>>
    /\ bs_written = 0
    /\ bs_acked = <<>>
    /\ bs_last = [op |-> "none", ret |-> "ok", failed |-> "none"]
    /\ bs_calls = 0
    /\ DSIdle
    /\ PLIdle
    /\ RTIdle
    /\ WNIdle
    /\ WRIdle
    /\ ERIdle
    /\ KSIdle
    /\ GAIdle

\* sink.write(record)
BSWrite ==
    /\ bs_pc = "open"
    /\ bs_written < MaxWrites
    /\ \E elapsed \in BOOLEAN : \E fail \in 0 .. Len(bs_buffer) + 2 :
          /\ ShouldFlush(Append(bs_buffer, bs_written + 1), bs_buffer_size, elapsed)
                 \/ fail = 0
          /\ bs_buffer' = BufferedWrite(bs_buffer, bs_buffer_size, bs_inner,
                                        bs_written + 1, elapsed, fail).buffer
          /\ bs_inner' = BufferedWrite(bs_buffer, bs_buffer_size, bs_inner,
                                       bs_written + 1, elapsed, fail).inner
          /\ bs_last' = [op |-> "write",
                         ret |-> BufferedWrite(bs_buffer, bs_buffer_size, bs_inner,
                                               bs_written + 1, elapsed, fail).ret,
                         failed |-> BufferedWrite(bs_buffer, bs_buffer_size, bs_inner,
                                                  bs_written + 1, elapsed, fail).failed]
          /\ bs_acked' =
                 IF BufferedWrite(bs_buffer, bs_buffer_size, bs_inner,
                                  bs_written + 1, elapsed, fail).ret = "ok"
                 THEN Append(bs_acked, bs_written + 1) ELSE bs_acked
    /\ bs_written' = bs_written + 1
    /\ UNCHANGED <<bs_pc, bs_buffer_size, bs_calls, notBS>>

\* sink.flush()
BSFlush ==
    /\ bs_pc = "open"
    /\ bs_calls < MaxSinkCalls
    /\ \E fail \in 0 .. Len(bs_buffer) + 1 :
          /\ bs_buffer' = ForceFlush(bs_buffer, bs_inner, fail).buffer
          /\ bs_inner' = ForceFlush(bs_buffer, bs_inner, fail).inner
          /\ bs_last' = [op |-> "flush",
                         ret |-> ForceFlush(bs_buffer, bs_inner, fail).ret,
                         failed |-> ForceFlush(bs_buffer, bs_inner, fail).failed]
    /\ bs_calls' = bs_calls + 1
    /\ UNCHANGED <<bs_pc, bs_buffer_size, bs_written, bs_acked, notBS>>

\* sink.close()
BSClose ==
    /\ bs_pc = "open"
    /\ bs_calls < MaxSinkCalls
    /\ \E fail \in 0 .. Len(bs_buffer) + 2 :
          /\ bs_buffer' = BufferedClose(bs_buffer, bs_inner, fail).buffer
          /\ bs_inner' = BufferedClose(bs_buffer, bs_inner, fail).inner
          /\ bs_last' = [op |-> "close",
                         ret |-> BufferedClose(bs_buffer, bs_inner, fail).ret,
                         failed |-> BufferedClose(bs_buffer, bs_inner, fail).failed]
          /\ bs_pc' = IF BufferedClose(bs_buffer, bs_inner, fail).ret = "ok"
                      THEN "closed" ELSE "open"
    /\ bs_calls' = bs_calls + 1
    /\ UNCHANGED <<bs_buffer_size, bs_written, bs_acked, notBS>>

BSNext ==
    \/ BSWrite
    \/ BSFlush
    \/ BSClose

SpecBuffered == BSInit /\ [][BSNext]_vars

\* ------------------------------------------------- DataStream: properties
\* The input sequence xs of a script: the payloads the source yields before
\* it ends (Ok(None), Err(EOF)) or fails
RECURSIVE Xs(_)
Xs(script) ==
    IF script = <<>> THEN <<>>
    ELSE IF Head(script).tag = "rec" THEN <<Head(script).data>> \o Xs(Tail(script))
    ELSE IF Head(script).tag = "wait" THEN Xs(Tail(script))
    ELSE <<>>

Payloads(records) == [i \in 1 .. Len(records) |-> records[i].data]

RECURSIVE Concat(_)
Concat(seqs) == IF seqs = <<>> THEN <<>> ELSE Head(seqs) \o Concat(Tail(seqs))

SinkReturnedOk == ds_phase = "done" /\ ds_ret = "ok"

\* C1: new(source).map(f).sink(k) delivers exactly [f(x) for x in xs], in
\* source order, each output with the timestamp of its input record.
C1_MapConservation ==
    (ds_calls = <<Call("map", 0)>> /\ ds_phase # "build" /\ ds_ret # "err") =>
        /\ ds_sunk = [i \in 1 .. Len(ds_emitted) |->
                         Rec(MapF(ds_emitted[i].data), ds_emitted[i].timestamp)]
        /\ SinkReturnedOk => Payloads(ds_emitted) = Xs(ds_input)

C1_Witness ==
    /\ ds_calls = <<Call("map", 0)>>
    /\ SinkReturnedOk
    /\ Len(ds_sunk) >= 2
    /\ \E i \in 1 .. Len(ds_input) : ds_input[i].tag = "wait"

\* C2: filter(p).sink(k) delivers exactly the sub-sequence of xs satisfying
\* p, in source order; a rejected record never ends the stream.
C2_FilterSubsequence ==
    (ds_calls = <<Call("filter", 0)>> /\ SinkReturnedOk) =>
        /\ Payloads(ds_sunk) = SelectSeq(Xs(ds_input), FilterP)
        /\ ds_sunk = SelectSeq(ds_emitted, LAMBDA r : FilterP(r.data))

C2_Witness ==
    /\ ds_calls = <<Call("filter", 0)>>
    /\ SinkReturnedOk
    /\ \E i, j \in 1 .. Len(Xs(ds_input)) :
          i < j /\ ~FilterP(Xs(ds_input)[i]) /\ FilterP(Xs(ds_input)[j])
    /\ ds_sunk # <<>>

\* C3: flat_map(f).sink(k) delivers f(x_1) ++ f(x_2) ++ ..., so the output
\* length is the sum of |f(x_i)|.
C3_FlatMapAll ==
    (ds_calls = <<Call("flat_map", 0)>> /\ SinkReturnedOk) =>
        Payloads(ds_sunk) =
            Concat([i \in 1 .. Len(Xs(ds_input)) |-> FlatMapG(Xs(ds_input)[i])])

\* C4: limit(n).sink(k) delivers exactly the first min(n, |xs|) records; the
\* counter never goes below zero.
C4_LimitFirstN ==
    /\ \A id \in 1 .. Len(ds_n) : ds_n[id] >= 0
    /\ \A n \in 0 .. MaxLimit :
          (ds_calls = <<Call("limit", n)>> /\ SinkReturnedOk) =>
              Payloads(ds_sunk) = SubSeq(Xs(ds_input), 1, Min(n, Len(Xs(ds_input))))

C4_Witness ==
    /\ SinkReturnedOk
    /\ \E n \in 1 .. MaxLimit :
          /\ ds_calls = <<Call("limit", n)>>
          /\ n < Len(Xs(ds_input))
          /\ Len(ds_sunk) = n

\* --------------------------------------------------- Pipeline: properties
\* the script items the source has answered so far
Consumed == SubSeq(pl_input, 1, Len(pl_input) - Len(pl_source))

\* a finite source: some records, then None
CleanInput == \A i \in 1 .. Len(pl_input) : pl_input[i].tag = "rec"

\* what the operator chain makes of one source record when nothing fails
Survivors(rec) == RunOperators(pl_operators, <<rec>>, <<>>).out

CountIn(recs, r) == Cardinality({i \in 1 .. Len(recs) : recs[i] = r})

WithTimestamp(recs, ts) == SelectSeq(recs, LAMBDA r : r.timestamp = ts)

\* every survivor of every source record handed out is in the sink, and
\* nothing else is
AllSurvivorsWritten ==
    /\ \A i \in 1 .. Len(pl_emitted) :
          \A r \in {Survivors(pl_emitted[i])[j] : j \in 1 .. Len(Survivors(pl_emitted[i]))} :
              CountIn(pl_sink, r) = CountIn(Survivors(pl_emitted[i]), r)
    /\ \A k \in 1 .. Len(pl_sink) :
          \E i \in 1 .. Len(pl_emitted) :
              CountIn(Survivors(pl_emitted[i]), pl_sink[k]) > 0

CompletedCleanly ==
    /\ pl_pc = "returned"
    /\ pl_ret = "ok"
    /\ pl_status = "Completed"
    /\ pl_flushed
    /\ pl_closed
    /\ Payloads(pl_emitted) = Xs(pl_input)
    /\ AllSurvivorsWritten

\* C5: for a finite source and operators and sink that never fail, execute()
\* eventually writes every surviving record, flushes and closes the sink,
\* returns Ok and ends Completed, whatever the backpressure strategy and the
\* fan-out; the status only moves Ready -> Running -> Completed.
C5_CleanRunCompletes ==
    /\ CleanInput => <>(pl_faulted \/ CompletedCleanly)
    /\ [][pl_status' # pl_status =>
              <<pl_status, pl_status'>> \in {<<"Ready", "Running">>, <<"Running", "Completed">>}]_vars

\* C6: execute() returns, with Ok or with an error, only after the sink has
\* been flushed and then closed.
C6_ReturnsAfterFlushClose ==
    pl_pc = "returned" => (pl_flushed /\ pl_closed)

\* C7: a source answering Err(Wait(d)) is polled again: the pipeline does not
\* end, no later record is lost and records_failed is not incremented.
C7_WaitPollsAgain ==
    ((\A i \in 1 .. Len(Consumed) : Consumed[i].tag \in {"rec", "wait"}) /\ ~pl_faulted) =>
        /\ pl_ret # "err"
        /\ pl_failed = 0

\* the step in which ErrorHandler::retry gives an operator's error up
OperatorGivenUp == pl_pc = "ops" /\ pl_dropped' # pl_dropped

BetweenCycles == pl_pc \in {"loop", "sleep", "flush", "close", "returned"}

SourceFailed == Consumed # <<>> /\ Last(Consumed).tag = "err"

\* C10: on a source error other than EOF or Wait the pipeline aborts: the
\* error is returned and the status becomes Failed, which is terminal.
C10_SourceErrorFails ==
    SourceFailed => (pl_pc = "returned" /\ pl_ret = "err" /\ pl_status = "Failed")


\* no source answer so far was an error
NoSourceError == \A i \in 1 .. Len(Consumed) : Consumed[i].tag = "rec"

\* no process or write call has failed more often than k = max_attempts - 1
\* times before it succeeded
FailuresWithinBound ==
    /\ pl_retry.kind = "Fixed"
    /\ pl_fails <= pl_retry.max_attempts - 1

ThrottleBrakes ==
    /\ pl_backpressure.kind = "Throttle"
    /\ pl_load >= pl_backpressure.high_watermark

\* the source has been polled after the sleep: execute() is past the select!
Pulled == pl_pc \in {"ops", "write", "flush", "returned"}

\* C12: under Throttle{high = H, backoff = B}, when the fan-out of a cycle is
\* >= H the loop sleeps for the backoff before it polls the source again,
\* and after the sleep it does poll the source (stated for runs in which
\* no call has failed).
C12_ThrottleSleepsThenPulls ==
    /\ [][(pl_pc = "loop" /\ ThrottleBrakes) => pl_pc' = "sleep"]_vars
    /\ (pl_pc = "sleep" /\ ~pl_faulted) ~> Pulled


\* what the operators make of the source records handed out, in source
\* order and, within one source record, in the order they produced it
InProductionOrder ==
    Concat([i \in 1 .. Len(pl_emitted) |-> Survivors(pl_emitted[i])])

\* C13: in Pipeline::execute the records the operators make of one source
\* record are written contiguously and in the order the operators produced
\* them, and the records of different source records in source order.
C13_FanOutInOrder ==
    (BetweenCycles /\ ~pl_faulted) => pl_sink = InProductionOrder


\* ------------------------------------------ RuntimeContext: properties
\* what the stages make of one source record when nothing fails
RtSurvivors(rec) == RunOperators(rt_operators, <<rec>>, <<>>).out

RtInProductionOrder ==
    Concat([i \in 1 .. Len(rt_emitted) |-> RtSurvivors(rt_emitted[i])])

IsPrefix(p, q) == Len(p) <= Len(q) /\ SubSeq(q, 1, Len(p)) = p

\* C14: with parallelism = 1 the sink receives the records in source order:
\* every output of a source record is written before every output of a
\* later one, whatever the interleaving of the tasks and the buffer_size;
\* when no call fails the sink holds the outputs in production order.
C14_SingleWorkerOrder ==
    rt_parallelism = 1 =>
        /\ \A i \in 1 .. Len(rt_sink) : \A j \in i .. Len(rt_sink) :
               rt_sink[i].timestamp <= rt_sink[j].timestamp
        /\ ~rt_faulted => IsPrefix(rt_sink, RtInProductionOrder)

\* one worker per stage has delivered a fan-out and a later source record
C14_Witness ==
    /\ rt_parallelism = 1
    /\ rt_operators # <<>>
    /\ rt_sink_pc = "done"
    /\ Len(rt_sink) >= 3
    /\ rt_sink[1].timestamp < rt_sink[Len(rt_sink)].timestamp

\* the sink task has written all there is to write and is done with the sink
RtSinkFinished ==
    /\ rt_sink_pc = "done"
    /\ rt_flushes = 1
    /\ rt_closes = 1

\* C15: execute_pipeline returns only after the sink task has written every
\* record of the run and has flushed and closed the sink.
C15_ReturnsAfterSinkClosed ==
    rt_returned => RtSinkFinished

\* every channel is within its capacity
Bounded == \A i \in 1 .. Len(rt_queue) : Len(rt_queue[i]) <= rt_buffer_size

Full(i) == Len(rt_queue[i]) = rt_buffer_size

\* C16: every inter-stage queue holds at most buffer_size records; a
\* producer that finds its outbound queue full keeps its record and waits,
\* and a queue only ever changes by a record joining its end or its head
\* being received: nothing is dropped or overwritten.
C16_QueuesBounded ==
    /\ []Bounded
    /\ [][/\ \A i \in 1 .. Len(rt_queue) :
               \/ rt_queue'[i] = rt_queue[i]
               \/ rt_queue[i] # <<>> /\ rt_queue'[i] = Tail(rt_queue[i])
               \/ /\ ~Full(i)
                  /\ Len(rt_queue'[i]) = Len(rt_queue[i]) + 1
                  /\ SubSeq(rt_queue'[i], 1, Len(rt_queue[i])) = rt_queue[i]
          /\ (rt_src.pc = "send" /\ Full(1)) => rt_src' = rt_src
          /\ \A s \in RtStages : \A w \in RtWorkers :
               (rt_worker[s][w].pc = "send" /\ Full(s + 1)) =>
                   rt_worker'[s][w] = rt_worker[s][w]]_vars

\* a worker waits with a result at a full queue while the source task has
\* filled the first one
C16_Witness ==
    /\ Full(1)
    /\ \E s \in RtStages : \E w \in RtWorkers :
          rt_worker[s][w].pc = "send" /\ Full(s + 1)


\* ------------------------------------------- windowed stream: properties
\* the window keys of the i-th input, as the aggregator and as any/all see them
KeysOf(i) == GetWindowKeys(wn_window, wn_inputs[i].timestamp)
WindowsOf(i) == GetAffectedWindows(wn_window, wn_inputs[i].timestamp)

InSeq(x, seq) == \E m \in 1 .. Len(seq) : seq[m] = x

\* the sum of the first i inputs that belong to the window of key
RECURSIVE SumInWindow(_, _)
SumInWindow(i, key) ==
    IF i = 0 THEN 0
    ELSE SumInWindow(i - 1, key)
             + (IF InSeq(key, KeysOf(i)) THEN wn_inputs[i].data ELSE 0)

\* one record per window key of the i-th input, with the new accumulator
ExpectedAggregate(i) ==
    [m \in 1 .. Len(KeysOf(i)) |->
        Rec(SumInWindow(i, KeysOf(i)[m]), wn_inputs[i].timestamp)]

\* C17: window(cfg).aggregate(init, f).sink(k) delivers, for every input
\* record, one record per window key of its timestamp, each carrying that
\* window's new accumulator (m records when the record is in m windows).
C17_IncrementalEmitReachesSink ==
    wn_kind = "aggregate" =>
        wn_sunk = Concat([i \in 1 .. Len(wn_inputs) |-> ExpectedAggregate(i)])

\* the inputs among the first i that were buffered for window w
Buffered(i, w) == {j \in 1 .. i : InSeq(w, WindowsOf(j))}
FirstBuffered(i, w) == CHOOSE j \in Buffered(i, w) : \A l \in Buffered(i, w) : j <= l

\* outputs (i, m) and (j, n) are for the same window, (j, n) the later one
LaterSameWindow(i, m, j, n) ==
    /\ i < j
    /\ m \in 1 .. Len(WindowsOf(i))
    /\ n \in 1 .. Len(WindowsOf(j))
    /\ WindowsOf(i)[m] = WindowsOf(j)[n]

\* C18: WindowAnyOperator answers, for each window of the input, whether
\* some buffered record of the window satisfies p (so false until the
\* first such record), stamped with the window's first buffered record;
\* once an output for a window is true every later one is.
C18_WindowAnySticky ==
    wn_kind = "any" =>
        \A i \in 1 .. Len(wn_outputs) :
            /\ Len(wn_outputs[i]) = Len(WindowsOf(i))
            /\ \A m \in 1 .. Len(WindowsOf(i)) :
                  /\ wn_outputs[i][m].data =
                         (\E j \in Buffered(i, WindowsOf(i)[m]) : MatchP(wn_inputs[j].data))
                  /\ wn_outputs[i][m].timestamp =
                         wn_inputs[FirstBuffered(i, WindowsOf(i)[m])].timestamp
                  /\ \A j \in 1 .. Len(wn_outputs) : \A n \in 1 .. Len(wn_outputs[j]) :
                         (LaterSameWindow(i, m, j, n) /\ wn_outputs[i][m].data)
                             => wn_outputs[j][n].data

\* a window answered false, then true, and stayed true on a record that
\* does not satisfy p
C18_Witness ==
    /\ wn_kind = "any"
    /\ \E i, j, l \in 1 .. Len(wn_outputs) :
          \E m \in 1 .. Len(wn_outputs[i]) : \E n \in 1 .. Len(wn_outputs[j]) :
              \E o \in 1 .. Len(wn_outputs[l]) :
                  /\ LaterSameWindow(i, m, j, n)
                  /\ LaterSameWindow(j, n, l, o)
                  /\ ~wn_outputs[i][m].data
                  /\ wn_outputs[j][n].data
                  /\ ~MatchP(wn_inputs[l].data)
                  /\ wn_outputs[l][o].data

\* C19: WindowAllOperator answers, for each window of the input, whether
\* every buffered record of the window satisfies p; once an output for a
\* window is false every later one is.
C19_WindowAllSticky ==
    wn_kind = "all" =>
        \A i \in 1 .. Len(wn_outputs) :
            /\ Len(wn_outputs[i]) = Len(WindowsOf(i))
            /\ \A m \in 1 .. Len(WindowsOf(i)) :
                  /\ wn_outputs[i][m].data =
                         (\A j \in Buffered(i, WindowsOf(i)[m]) : MatchP(wn_inputs[j].data))
                  /\ \A j \in 1 .. Len(wn_outputs) : \A n \in 1 .. Len(wn_outputs[j]) :
                         (LaterSameWindow(i, m, j, n) /\ ~wn_outputs[i][m].data)
                             => ~wn_outputs[j][n].data

\* a window answered true, then false, and stayed false on a record that
\* satisfies p
C19_Witness ==
    /\ wn_kind = "all"
    /\ \E i, j, l \in 1 .. Len(wn_outputs) :
          \E m \in 1 .. Len(wn_outputs[i]) : \E n \in 1 .. Len(wn_outputs[j]) :
              \E o \in 1 .. Len(wn_outputs[l]) :
                  /\ LaterSameWindow(i, m, j, n)
                  /\ LaterSameWindow(j, n, l, o)
                  /\ wn_outputs[i][m].data
                  /\ ~wn_outputs[j][n].data
                  /\ MatchP(wn_inputs[l].data)
                  /\ ~wn_outputs[l][o].data

\* how often v occurs in seq, and how many elements of seq exceed v
Occurrences(seq, v) == Cardinality({m \in 1 .. Len(seq) : seq[m] = v})
Exceeding(seq, v) == Cardinality({m \in 1 .. Len(seq) : seq[m] > v})

\* out is the n largest values of xs with multiplicity, in descending order
IsTopOf(out, xs, n) ==
    /\ Len(out) = n
    /\ \A m \in 1 .. Len(out) - 1 : out[m] >= out[m + 1]
    /\ \A v \in Data :
          Occurrences(out, v) = Min(Occurrences(xs, v), Max(0, n - Exceeding(xs, v)))

\* C20: window(Global).top_k(k) fed x_1..x_n delivers, as its i-th output,
\* the min(i, k) largest values among x_1..x_i with multiplicity, in
\* descending order.
C20_TopK ==
    (wn_kind = "top_k" /\ wn_window = Global) =>
        /\ Len(wn_sunk) = Len(wn_inputs)
        /\ \A i \in 1 .. Len(wn_sunk) :
              IsTopOf(wn_sunk[i].data, Payloads(SubSeq(wn_inputs, 1, i)), Min(i, wn_k))

\* more than k values were fed and a smaller value was pushed out
C20_Witness ==
    /\ wn_kind = "top_k" /\ wn_window = Global
    /\ wn_k = 2
    /\ Len(wn_sunk) = 3
    /\ wn_sunk[3].data = <<2, 1>>
    /\ wn_inputs[1].data = 0

\* the inputs among the first i whose window keys include key, and their
\* payloads in arrival order
InWindow(i, key) == {j \in 1 .. i : InSeq(key, KeysOf(j))}
RECURSIVE WindowData(_, _)
WindowData(i, key) ==
    IF i = 0 THEN <<>>
    ELSE WindowData(i - 1, key)
             \o (IF InSeq(key, KeysOf(i)) THEN <<wn_inputs[i].data>> ELSE <<>>)

\* input a may stand before input b under the ordering of the sorter
SortedPair(kind, a, b) ==
    CASE kind = "sort_asc" -> wn_inputs[a].data <= wn_inputs[b].data
      [] kind = "sort_desc" -> wn_inputs[a].data >= wn_inputs[b].data
      [] kind = "sort_by_ts_asc" -> wn_inputs[a].timestamp <= wn_inputs[b].timestamp
      [] kind = "sort_by_ts_desc" -> wn_inputs[a].timestamp >= wn_inputs[b].timestamp

\* out is the payloads of the inputs in S, each once, in an order that is
\* non-decreasing under the ordering of the sorter
ArrangedBy(kind, out, S) ==
    /\ Len(out) = Cardinality(S)
    /\ \E perm \in [1 .. Len(out) -> S] :
          /\ \A a, b \in 1 .. Len(out) : a # b => perm[a] # perm[b]
          /\ \A a \in 1 .. Len(out) : out[a] = wn_inputs[perm[a]].data
          /\ \A a \in 1 .. Len(out) - 1 : SortedPair(kind, perm[a], perm[a + 1])

\* C21: the window sorters (sort(Asc|Desc) through sort_by, sort_by_ts(Asc|
\* Desc)) answer, for each window key of the input, the values received so
\* far in that window, each once, in non-decreasing order under the
\* operator's ordering (the value, or the timestamp of the record), stamped
\* with the input's timestamp.
C21_SortersSorted ==
    wn_kind \in SortKinds =>
        \A i \in 1 .. Len(wn_outputs) :
            /\ Len(wn_outputs[i]) = Len(KeysOf(i))
            /\ \A m \in 1 .. Len(KeysOf(i)) :
                  /\ ArrangedBy(wn_kind, wn_outputs[i][m].data, InWindow(i, KeysOf(i)[m]))
                  /\ wn_outputs[i][m].timestamp = wn_inputs[i].timestamp

\* sort_by_ts(Asc) under Global got the timestamps 2, 0, 1: the third record
\* was inserted between the other two
C21_Witness ==
    /\ wn_kind = "sort_by_ts_asc" /\ wn_window = Global
    /\ Len(wn_inputs) = 3
    /\ wn_inputs[1] = Rec(0, 2) /\ wn_inputs[2] = Rec(1, 0) /\ wn_inputs[3] = Rec(2, 1)
    /\ wn_outputs[3][1].data = <<1, 2, 0>>

\* C22: WindowSkipper(cfg, n) answers, for each window key of the input,
\* the window's inputs from position n onward in arrival order: the empty
\* sequence while the window has at most n inputs, [x_{n+1}, .., x_i] after.
C22_SkipperFromN ==
    wn_kind = "skip" =>
        \A i \in 1 .. Len(wn_outputs) :
            /\ Len(wn_outputs[i]) = Len(KeysOf(i))
            /\ \A m \in 1 .. Len(KeysOf(i)) :
                  /\ wn_outputs[i][m].data =
                         [x \in 1 .. Max(0, Len(WindowData(i, KeysOf(i)[m])) - wn_k) |->
                             WindowData(i, KeysOf(i)[m])[wn_k + x]]
                  /\ wn_outputs[i][m].timestamp = wn_inputs[i].timestamp

\* skip(1) under Global answered [], [x2], [x2, x3]
C22_Witness ==
    /\ wn_kind = "skip" /\ wn_window = Global /\ wn_k = 1
    /\ Len(wn_outputs) = 3
    /\ wn_outputs[1][1].data = <<>>
    /\ wn_outputs[2][1].data = <<wn_inputs[2].data>>
    /\ wn_outputs[3][1].data = <<wn_inputs[2].data, wn_inputs[3].data>>
    /\ wn_inputs[2].data # wn_inputs[3].data

\* the elements of a set of integers in increasing order
RECURSIVE Increasing(_)
Increasing(S) ==
    IF S = {} THEN <<>>
    ELSE <<CHOOSE w \in S : \A u \in S : w <= u>>
             \o Increasing(S \ {CHOOSE w \in S : \A u \in S : w <= u})

\* the window keys of the data model: floor(ts/size)*size, the multiples of
\* slide in (ts - size, ts] in increasing order, floor(ts/gap), 0
DataModelKeys(wt, ts) ==
    CASE wt.kind = "Tumbling" -> <<(ts \div wt.size) * wt.size>>
      [] wt.kind = "Sliding" ->
             Increasing({w \in ts - wt.size + 1 .. ts : w % wt.slide = 0})
      [] wt.kind = "Session" -> <<ts \div wt.size>>
      [] wt.kind = "Global" -> <<0>>

\* C23: for every record handed to a window operator, get_window_keys
\* answers the keys of the data model, in increasing order, each an
\* unsigned integer (no key is the wrap-around of a negative window start).
C23_WindowKeysDataModel ==
    \A i \in 1 .. Len(wn_inputs) :
        /\ Len(KeysOf(i)) = Len(DataModelKeys(wn_window, wn_inputs[i].timestamp))
        /\ \A m \in 1 .. Len(KeysOf(i)) :
              /\ KeysOf(i)[m].wrap = 0
              /\ KeysOf(i)[m].v = DataModelKeys(wn_window, wn_inputs[i].timestamp)[m]

\* ------------------------------------- WindowReduceOperator: properties
\* the left fold of the reduce closure over a non-empty sequence of records
RECURSIVE FoldOf(_)
FoldOf(records) ==
    IF Len(records) = 1 THEN records[1].data
    ELSE ReduceFunc(FoldOf(SubSeq(records, 1, Len(records) - 1)),
                    records[Len(records)].data)

\* the windows of the buffer whose key + size + allow_lateness <= now
Due(now) ==
    {key \in DOMAIN wr_buffer :
        /\ wr_window.window_type.kind # "Global"
        /\ key + wr_window.window_type.size + wr_window.allow_lateness <= now}

\* results holds, in some order, one record per window of S: its fold,
\* stamped with its first record
OnePerWindow(results, S) ==
    /\ Len(results) = Cardinality(S)
    /\ \E order \in [1 .. Len(results) -> S] :
          /\ \A a, b \in 1 .. Len(results) : a # b => order[a] # order[b]
          /\ \A a \in 1 .. Len(results) :
                results[a] = Rec(FoldOf(wr_buffer[order[a]]),
                                 wr_buffer[order[a]][1].timestamp)

\* C24: a call of on_window_trigger removes exactly the buffered windows
\* with key + size + allow_lateness <= now, answers one record per removed
\* window (its fold, stamped with its first record) and leaves every other
\* window's buffer as it was; under Global nothing is removed.
C24_TriggerEvictsExpired ==
    [][wr_triggers' = wr_triggers + 1 =>
          /\ DOMAIN wr_buffer' = DOMAIN wr_buffer \ Due(wr_now')
          /\ \A key \in DOMAIN wr_buffer' : wr_buffer'[key] = wr_buffer[key]
          /\ OnePerWindow(wr_results', Due(wr_now'))
          /\ wr_window.window_type.kind = "Global" => wr_buffer' = wr_buffer]_vars

\* a trigger with allow_lateness 1 found two windows, removed the one that
\* held two records and kept the other
C24_Witness ==
    /\ wr_last = "trigger"
    /\ wr_window.allow_lateness = 1
    /\ Cardinality(DOMAIN wr_before) = 2
    /\ Cardinality(DOMAIN wr_buffer) = 1
    /\ Len(wr_results) = 1
    /\ \E key \in DOMAIN wr_before \ DOMAIN wr_buffer :
          /\ Len(wr_before[key]) = 2
          /\ wr_results[1].data = 2 * wr_before[key][1].data + wr_before[key][2].data
          /\ wr_before[key][1].data # wr_before[key][2].data

\* ------------------------------------------- ErrorHandler::retry: properties
\* the strategy has a delay for attempt a
HasDelay(a) == er_strategy.kind # "NoRetry" /\ a < er_strategy.max_attempts

Returned == er_pc = "returned"

\* what holds of every state of a call of retry
RetryContract ==
    /\ \A j \in 1 .. Len(er_outcomes) - 1 : er_outcomes[j].tag = "err"
    /\ Returned => er_ret = Some(er_outcomes[Len(er_outcomes)])
    /\ ~Returned => er_ret = None
    /\ \A j \in 1 .. Len(er_outcomes) :
          er_outcomes[j].tag = "err" =>
              IF HasDelay(j - 1) THEN ~(Returned /\ j = Len(er_outcomes))
              ELSE Returned /\ j = Len(er_outcomes)
    /\ (er_strategy.kind = "NoRetry" /\ Returned) => Len(er_outcomes) = 1
    /\ er_strategy.kind # "NoRetry" => Len(er_outcomes) <= er_strategy.max_attempts + 1

\* C25: retry returns the first Ok of the operation; after the a-th failure
\* it retries iff the strategy has a delay for a and otherwise returns that
\* error; the operation is invoked once under NoRetry and at most
\* max_attempts + 1 times under Fixed or ExponentialBackoff; and retry
\* returns in the end.
C25_RetryContract == []RetryContract /\ <>Returned

\* ExponentialBackoff with max_attempts 2 failed three times, slept the
\* delays 1 and 2 (capped by max_delay) and returned the third error
C25_Witness ==
    /\ er_strategy = ExponentialBackoff(1, 2, 2, 2)
    /\ Returned
    /\ Len(er_outcomes) = 3
    /\ er_slept = <<1, 2>>
    /\ er_ret = Some([tag |-> "err", v |-> 2])
    /\ er_outcomes[1].v = 0 /\ er_outcomes[2].v = 1

\* ---------------------------------------- KeyedStateBackend: properties
\* the set calls on key among the first p calls
SetsBefore(p, key) ==
    {q \in 1 .. p : ks_calls[q].op = "set" /\ ks_calls[q].key = key}

\* the value of the most recent set(key, .) among the first p calls, None
\* if there is none
MostRecentSet(p, key) ==
    IF SetsBefore(p, key) = {} THEN None
    ELSE ks_calls[CHOOSE q \in SetsBefore(p, key) :
                      \A r \in SetsBefore(p, key) : r <= q].value

\* C26: with the calls taken in the order of their guarded sections, every
\* get(k) answered None if k was never set and otherwise the value of the
\* most recent set(k, .); the stored value of every key is that of its most
\* recent set, whatever was set under other keys and whatever callers did
\* to the values they got; this under every interleaving of the threads.
C26_StateBackendAtomic ==
    /\ \A p \in 1 .. Len(ks_calls) :
          ks_calls[p].op = "get" => ks_calls[p].value = MostRecentSet(p - 1, ks_calls[p].key)
    /\ \A key \in KsKeys : StateGet(ks_state, key) = MostRecentSet(Len(ks_calls), key)

\* thread 1 set key 0, both threads got the value, thread 2 changed its
\* copy, and the stored value is still the one that was set
C26_Witness ==
    /\ Len(ks_calls) = 3
    /\ ks_calls[1] = [op |-> "set", thread |-> 1, key |-> 0, value |-> Some(0)]
    /\ ks_calls[2] = [op |-> "get", thread |-> 2, key |-> 0, value |-> Some(0)]
    /\ ks_calls[3] = [op |-> "get", thread |-> 1, key |-> 0, value |-> Some(0)]
    /\ ks_thread[2].got # None
    /\ ks_thread[2].got[1].v = 1
    /\ ks_state[0] = 0

\* ----------------------------------------- GithubArchiveSource: properties
\* the (date, hour) files of the range in chronological order
RangeFiles(start_date, end_date) ==
    [n \in 1 .. (end_date - start_date + 1) * (LastHour + 1) |->
        [date |-> start_date + (n - 1) \div (LastHour + 1),
         hour |-> (n - 1) % (LastHour + 1)]]

\* C27: with start_date <= end_date the source goes through the files of
\* the range in chronological order, one hour at a time (hour 23 is followed
\* by hour 0 of the next day), never to a date after end_date, and reports
\* exhaustion only when it has been to every hour of every date of the range.
C27_DateRangeCovered ==
    /\ \A n \in 1 .. Len(ga_visited) :
          /\ n <= Len(RangeFiles(ga_start_date, ga_end_date[1]))
          /\ ga_visited[n] = RangeFiles(ga_start_date, ga_end_date[1])[n]
    /\ ga_pc = "exhausted" => ga_visited = RangeFiles(ga_start_date, ga_end_date[1])

\* ------------------------------------------ fused sources: properties
\* C28: whatever the builder calls, the source handed to the sink answers
\* None (the sink loop breaks and goes on to flush) only when the innermost
\* source has reported its end: every record of the input was pulled, a
\* record that yields no output being skipped.
C28_ExhaustionOnlyFromUpstream ==
    ds_phase \in {"flush", "close"} => Payloads(ds_emitted) = Xs(ds_input)

\* what a sequence of filter and map calls, taken in the order they were
\* made, leaves of the payloads xs
InOrderStep(call, xs) ==
    IF call.name = "filter"
    THEN SelectSeq(xs, LAMBDA x : FilterClosure(call.arg, x))
    ELSE [i \in 1 .. Len(xs) |-> MapF(xs[i])]

RECURSIVE InOrder(_, _)
InOrder(calls, xs) ==
    IF calls = <<>> THEN xs
    ELSE InOrder(Tail(calls), InOrderStep(Head(calls), xs))

FilterMapFilter == <<Call("filter", 0), Call("map", 0), Call("filter", 1)>>

\* C29: operators are applied in the order of the builder calls: whatever
\* sequence of filter and map calls was made, sink delivers the payloads that
\* applying the calls one after the other leaves; in particular
\* filter(p).map(f).filter(q) delivers [f(x) for x in xs if p(x) and q(f(x))]
\* in order.  After a map or flat_map call the stream's own operator
\* vector is empty.
C29_BuilderOrder ==
    /\ ((\A i \in 1 .. Len(ds_calls) : ds_calls[i].name \in {"filter", "map"})
           /\ SinkReturnedOk) =>
          Payloads(ds_sunk) = InOrder(ds_calls, Xs(ds_input))
    /\ (ds_calls = FilterMapFilter /\ SinkReturnedOk) =>
          Payloads(ds_sunk) =
              [i \in 1 .. Len(SelectSeq(Xs(ds_input),
                                  LAMBDA x : FilterP(x) /\ FilterQ(MapF(x)))) |->
                 MapF(SelectSeq(Xs(ds_input),
                         LAMBDA x : FilterP(x) /\ FilterQ(MapF(x)))[i])]
    /\ (ds_calls # <<>> /\ Last(ds_calls).name \in {"map", "flat_map"}) =>
          ds_stream.operators = <<>>

\* filter(p).map(f).filter(q) over an input with a value p rejects, a value
\* p accepts whose image q rejects, and a value that passes both
C29_Witness ==
    /\ ds_calls = FilterMapFilter
    /\ SinkReturnedOk
    /\ \E i, j, k \in 1 .. Len(Xs(ds_input)) :
          /\ ~FilterP(Xs(ds_input)[i])
          /\ FilterP(Xs(ds_input)[j]) /\ ~FilterQ(MapF(Xs(ds_input)[j]))
          /\ FilterP(Xs(ds_input)[k]) /\ FilterQ(MapF(Xs(ds_input)[k]))
    /\ ds_sunk # <<>>

\* the combinators built on WindowAggregator
AggKinds == {"aggregate", "fold", "top_k"}

\* the left fold of the aggregator's f over xs, starting from acc
RECURSIVE AggFold(_, _, _)
AggFold(agg, acc, xs) ==
    IF xs = <<>> THEN acc
    ELSE AggFold(agg, AggF(agg, acc, Head(xs)), Tail(xs))

\* the stored accumulators are exactly the folds of the windows seen so far
AccumulatorsAreFolds ==
    wn_kind \in AggKinds =>
        /\ DOMAIN wn_state =
               {key \in DOMAIN wn_state : InWindow(Len(wn_inputs), key) # {}}
        /\ \A i \in 1 .. Len(wn_inputs) : \A m \in 1 .. Len(KeysOf(i)) :
               KeysOf(i)[m] \in DOMAIN wn_state
        /\ \A key \in DOMAIN wn_state :
               wn_state[key] =
                   AggFold([kind |-> wn_kind, k |-> wn_k],
                           AggInit([kind |-> wn_kind, k |-> wn_k]),
                           WindowData(Len(wn_inputs), key))

\* a process call leaves the accumulators of the other window keys alone
OnlyOwnKeysChange ==
    (wn_kind \in AggKinds /\ wn_inputs' # wn_inputs) =>
        /\ \A key \in DOMAIN wn_state :
               ~InSeq(key, GetWindowKeys(wn_window, Last(wn_inputs').timestamp)) =>
                   key \in DOMAIN wn_state' /\ wn_state'[key] = wn_state[key]
        /\ \A key \in DOMAIN wn_state' \ DOMAIN wn_state :
               InSeq(key, GetWindowKeys(wn_window, Last(wn_inputs').timestamp))

\* C30: after any sequence of process calls on a WindowAggregator, for every
\* window key the stored accumulator equals the left fold of f, starting
\* from init, over exactly the inputs whose key set contains the key, in
\* arrival order; processing a record changes only the accumulators of its
\* own window keys and leaves all others unchanged.
C30_AccumulatorIsWindowFold ==
    []AccumulatorsAreFolds /\ [][OnlyOwnKeysChange]_vars

\* an order-sensitive fold holds two different inputs under a key that the
\* latest record does not belong to, next to a key the latest record made
C30_Witness ==
    /\ wn_kind = "fold"
    /\ Len(wn_inputs) >= 3
    /\ \E key \in DOMAIN wn_state :
          /\ Len(WindowData(Len(wn_inputs), key)) = 2
          /\ WindowData(Len(wn_inputs), key)[1] # WindowData(Len(wn_inputs), key)[2]
          /\ ~InSeq(key, KeysOf(Len(wn_inputs)))
    /\ \E key \in DOMAIN wn_state : InWindow(Len(wn_inputs), key) = {Len(wn_inputs)}

\* ------------------------------------- RuntimeContext: termination
RtWorkersDone == \A s \in RtStages : \A w \in RtWorkers : rt_worker[s][w].pc = "done"

RtDrained == \A i \in 1 .. Len(rt_queue) : rt_queue[i] = <<>>

\* once the sink task is past its receive loop every worker has exited,
\* every queue is empty and the sink task holds no record
FlushAfterDrain ==
    rt_sink_pc \in {"flush", "close", "done"} =>
        /\ rt_src.pc = "done"
        /\ RtWorkersDone
        /\ RtDrained
        /\ rt_sink_hand = NoRec

\* C31: in parallel mode every worker eventually drains its inbound queue
\* and exits and the sink task then flushes and closes the sink, each exactly
\* once; by the time of the flush every record the last stage forwarded has
\* been handed to the sink, and the sink is not written after close; no
\* task stays blocked forever.
C31_ParallelTerminates ==
    /\ <>[](rt_src.pc = "done" /\ RtWorkersDone /\ RtDrained /\ RtSinkFinished)
    /\ [](rt_flushes <= 1 /\ rt_closes <= 1)
    /\ []FlushAfterDrain
    /\ [][rt_closes = 1 => rt_sink' = rt_sink]_vars

\* two stages of two workers each have finished and the sink holds records
C31_Witness ==
    /\ rt_parallelism = 2
    /\ Len(rt_operators) = 2
    /\ rt_buffer_size = 1
    /\ RtWorkersDone
    /\ RtSinkFinished
    /\ Len(rt_sink) >= 2

\* the multiset of the elements of a sequence
BagOfSeq(seq) ==
    [x \in {seq[i] : i \in 1 .. Len(seq)} |->
        Cardinality({i \in 1 .. Len(seq) : seq[i] = x})]

\* bag a holds no element more often than bag b
SubBag(a, b) == \A x \in DOMAIN a : x \in DOMAIN b /\ a[x] <= b[x]

\* C32: in parallel mode with parallelism >= 1, when no operator and no
\* sink call fails, the queues and workers neither lose nor duplicate a
\* record: the sink never holds a record more often than the operator chain
\* makes it from the records the source has handed out, and once the sink
\* task is done the multiset of the records written equals the multiset the
\* chain makes of them; a source that never answers Wait has by then handed
\* out every record it holds before its end or first error.
C32_NoLossNoDuplication ==
    ~rt_faulted =>
        /\ SubBag(BagOfSeq(rt_sink), BagOfSeq(RtInProductionOrder))
        /\ rt_sink_pc = "done" => BagOfSeq(rt_sink) = BagOfSeq(RtInProductionOrder)
        /\ (rt_sink_pc = "done"
               /\ \A i \in 1 .. Len(rt_input) : rt_input[i].tag # "wait") =>
              Payloads(rt_emitted) = Xs(rt_input)

\* two workers per stage have delivered everything, out of production order
C32_Witness ==
    /\ ~rt_faulted
    /\ rt_parallelism = 2
    /\ rt_operators # <<>>
    /\ rt_sink_pc = "done"
    /\ Len(rt_sink) >= 3
    /\ rt_sink # RtInProductionOrder
    /\ \E i \in 1 .. Len(rt_operators) : rt_operators[i].kind = "flat_map"

\* ------------------------------------------- Pipeline: watermark, timer
\* a record has been obtained and its outputs are not all written yet
MidRecord == pl_pc \in {"ops", "write"}

C34_TimerCountsCycles ==
    pl_pc \in {"loop", "sleep", "flush", "close", "returned"} =>
        pl_timer_count = Len(pl_emitted)

\* ------------------------------------------- DataStream::sink: Wait, EOF
\* how a source script ends: the tag of its first item that is neither a
\* record nor a Wait, "none" when it runs out
RECURSIVE Terminator(_)
Terminator(script) ==
    IF script = <<>> THEN "none"
    ELSE IF Head(script).tag \in {"rec", "wait"} THEN Terminator(Tail(script))
    ELSE Head(script).tag

NoFlatMap == \A i \in 1 .. Len(ds_calls) : ds_calls[i].name # "flat_map"

\* C35: DataStream::sink takes an upstream Err(Wait) as retry-later: the
\* records pulled from the source are at all times the source's records in
\* order, each once, whatever Waits lie between them; the loop is left for
\* flush and close only when the source has answered None or Err(EOF), by
\* which time every record before that end has been pulled, and filter/map
\* chains have delivered exactly what they make of those records; a return
\* of Ok means the sink was flushed and closed.  (Chains with a flat_map
\* are left out of the last parts: they can end early, Wait or no Wait.)
C35_WaitRetriesEofEnds ==
    /\ IsPrefix(Payloads(ds_emitted), Xs(ds_input))
    /\ (NoFlatMap /\ (ds_phase \in {"flush", "close"} \/ SinkReturnedOk)) =>
          /\ Terminator(ds_input) \in {"none", "eof"}
          /\ Payloads(ds_emitted) = Xs(ds_input)
    /\ ((\A i \in 1 .. Len(ds_calls) : ds_calls[i].name \in {"filter", "map"})
           /\ SinkReturnedOk) =>
          Payloads(ds_sunk) = InOrder(ds_calls, Xs(ds_input))
    /\ SinkReturnedOk => ds_flushed /\ ds_closed

\* a Wait, then a record that a map delivers, then Err(EOF): Ok is returned
C35_Witness ==
    /\ SinkReturnedOk
    /\ Len(ds_input) = 3
    /\ ds_input[1].tag = "wait"
    /\ ds_input[2].tag = "rec"
    /\ ds_input[3].tag = "eof"
    /\ \E i \in 1 .. Len(ds_calls) : ds_calls[i].name = "map"
    /\ Len(ds_sunk) = 1

\* ------------------------------------------------- BufferedSink: properties
\* the records the inner sink has accepted, in the order it accepted them
InnerRecords == SelectSeq(bs_inner, LAMBDA c : c.kind = "write")

InnerIds == [i \in 1 .. Len(InnerRecords) |-> InnerRecords[i].id]

Ascending(ids) == \A i, j \in 1 .. Len(ids) : i < j => ids[i] < ids[j]

\* C36: the inner sink receives the records in write order, each once;
\* after a write that answered Ok the buffer holds fewer than buffer_size
\* records; after a flush or close that answered Ok the buffer is empty and
\* every record whose write answered Ok has reached the inner sink; a close
\* that answered Ok ended with the inner sink's flush and then its close.
C36_BufferedSinkContract ==
    /\ Ascending(InnerIds)
    /\ (bs_last.op = "write" /\ bs_last.ret = "ok") => Len(bs_buffer) < bs_buffer_size
    /\ (bs_last.op \in {"flush", "close"} /\ bs_last.ret = "ok") =>
          /\ bs_buffer = <<>>
          /\ \A i \in 1 .. Len(bs_acked) :
                 \E j \in 1 .. Len(InnerIds) : InnerIds[j] = bs_acked[i]
    /\ (bs_last.op = "close" /\ bs_last.ret = "ok") =>
          /\ Len(bs_inner) >= 2
          /\ bs_inner[Len(bs_inner)].kind = "close"
          /\ bs_inner[Len(bs_inner) - 1].kind = "flush"

\* C38: when a write of the inner sink fails during a flush the error is
\* returned and nothing is lost: the records the inner sink has accepted
\* followed by the records in the buffer are the records written so far, in
\* order.
C38_FailedFlushKeepsRecords ==
    bs_last.failed = "write" =>
        /\ bs_last.ret = "err"
        /\ InnerIds \o bs_buffer = [i \in 1 .. bs_written |-> i]

\* the parts of both claims on the runs where no inner call has failed so far
BufferedNoFailureYet ==
    (InnerIds \o bs_buffer = [i \in 1 .. bs_written |-> i]) => C36_BufferedSinkContract

\* ------------------------------------------------- top_k_by_key: properties
\* how often x occurs in seq
CountOf(x, seq) == Cardinality({i \in 1 .. Len(seq) : seq[i] = x})

\* the heap of keys and the buckets hold the same multiset of keys
SameKeys(acc) ==
    /\ \A k \in DOMAIN acc.kvs : CountOf(k, acc.keys) = Len(acc.kvs[k])
    /\ \A i \in 1 .. Len(acc.keys) : acc.keys[i] \in DOMAIN acc.kvs

\* out is the best `size` of the inputs J: by key descending, inputs of one
\* key in arrival order, every input left out ranking below every one kept
\* (a smaller key, or the same key and a later arrival)
TopByKey(out, J, size) ==
    /\ Len(out) = size
    /\ \E perm \in [1 .. size -> J] :
          /\ \A a, b \in 1 .. size : a < b =>
                 \/ KeyF(out[a]) > KeyF(out[b])
                 \/ KeyF(out[a]) = KeyF(out[b]) /\ perm[a] < perm[b]
          /\ \A a \in 1 .. size : out[a] = wn_inputs[perm[a]].data
          /\ \A j \in J : (\A a \in 1 .. size : perm[a] # j) =>
                 \A a \in 1 .. size :
                    \/ KeyF(wn_inputs[j].data) < KeyF(out[a])
                    \/ KeyF(wn_inputs[j].data) = KeyF(out[a]) /\ j > perm[a]

\* C37: top_k_by_key(n, f): after every input, in every window of the
\* input, the heap of keys and the buckets hold the same multiset of keys,
\* and the projected output has min(i, n) values for the i inputs of the
\* window so far: those with the largest keys, by key descending, the
\* earliest arrivals first and kept among equal keys; over the global
\* window the i-th record in the sink is that output.
C37_TopKByKey ==
    wn_kind = "top_k_by_key" =>
        /\ \A i \in 1 .. Len(wn_outputs) : \A m \in 1 .. Len(wn_outputs[i]) :
               /\ SameKeys(wn_outputs[i][m].data)
               /\ TopByKey(TopKByKeyMap(wn_outputs[i][m].data),
                           InWindow(i, KeysOf(i)[m]),
                           Min(Cardinality(InWindow(i, KeysOf(i)[m])), wn_k))
        /\ wn_window = Global =>
               /\ Len(wn_sunk) = Len(wn_inputs)
               /\ \A i \in 1 .. Len(wn_sunk) :
                      wn_sunk[i].data = TopKByKeyMap(wn_outputs[i][1].data)

\* 1, 0, 2 with n = 2: the keys are 0, 0, 1; the third input pushes the
\* later of the two values of key 0 out
C37_Witness ==
    /\ wn_kind = "top_k_by_key" /\ wn_window = Global
    /\ wn_k = 2
    /\ Payloads(wn_inputs) = <<1, 0, 2>>
    /\ wn_sunk[3].data = <<2, 1>>


\* ------------------------------------------------- C39
\* the timestamps get_affected_windows maps to the window `key`
TimestampsOf(wt, key) ==
    {ts \in 0 .. 2 * MaxClock : InSeq(key, GetAffectedWindows(wt, ts))}

\* the window's end: the exclusive upper bound of the timestamps of `key`
WindowEnd(wt, key) ==
    1 + (CHOOSE m \in TimestampsOf(wt, key) :
            \A ts \in TimestampsOf(wt, key) : ts <= m)

\* the windows the latest on_window_trigger removed
Evicted(before, after) == DOMAIN before \ DOMAIN after

EvictedWhenOver ==
    wr_triggers' = wr_triggers + 1 =>
        \A key \in Evicted(wr_buffer, wr_buffer') :
            WindowEnd(wr_window.window_type, key) + wr_window.allow_lateness <= wr_now'

\* C39: WindowReduce never evicts a window early: on_window_trigger removes
\* a window only when the window's end (the exclusive upper bound of the
\* timestamps that map to its key) plus allow_lateness is <= now.
C39_NoEarlyEviction == [][EvictedWhenOver]_vars

\* the same, for the window types whose key is the window's start
C39_StartKeyedNoEarlyEviction ==
    [][wr_window.window_type.kind # "Session" => EvictedWhenOver]_vars


\* ------------------------------------------------- C40
\* a < b as u64 values (the value of a key is wrap * 2^64 + v)
U64Less(a, b) == a.wrap < b.wrap \/ (a.wrap = b.wrap /\ a.v < b.v)

StrictlyIncreasing(keys) ==
    \A m \in 1 .. Len(keys) - 1 : U64Less(keys[m], keys[m + 1])

\* the i64 window starts behind the keys are strictly increasing
StartsIncreasing(keys) ==
    \A m \in 1 .. Len(keys) - 1 : keys[m].v < keys[m + 1].v

NoRepeatedKey(keys) ==
    \A a, b \in 1 .. Len(keys) : a # b => keys[a] # keys[b]

\* the timestamp lies in an interval [k * slide, k * slide + size)
Covered(wt, ts) == wt.kind = "Sliding" => ts % wt.slide < wt.size

\* C40 as stated: every record belongs to at least one window: for every
\* window type with positive durations (Sliding with slide > size included)
\* and every timestamp >= 0 the key sequence is non-empty and strictly
\* increasing, and the window aggregator emits at least one output for
\* every input.
C40_EveryRecordHasWindow ==
    \A i \in 1 .. Len(wn_inputs) :
        /\ Len(KeysOf(i)) >= 1
        /\ StrictlyIncreasing(KeysOf(i))
        /\ wn_kind \in AggKinds => Len(wn_outputs[i]) >= 1

\* C40, amended: the key sequence of a record has no repeated key and its
\* window starts are strictly increasing; it is non-empty exactly when the
\* window type is not Sliding or ts mod slide < size (always so when
\* slide <= size), and the window aggregator emits one output per key: none
\* for a record in a gap of Sliding with slide > size.
C40_RecordHasWindowUnlessInGap ==
    \A i \in 1 .. Len(wn_inputs) :
        /\ Len(KeysOf(i)) >= 1 <=> Covered(wn_window, wn_inputs[i].timestamp)
        /\ wn_window.kind = "Sliding" /\ wn_window.slide <= wn_window.size
               => Len(KeysOf(i)) >= 1
        /\ NoRepeatedKey(KeysOf(i))
        /\ StartsIncreasing(KeysOf(i))
        /\ wn_kind \in AggKinds => Len(wn_outputs[i]) = Len(KeysOf(i))

\* a record in the gap of Sliding(1, 2) after one that had a window
C40_Witness ==
    /\ wn_kind \in AggKinds
    /\ wn_window = Sliding(1, 2)
    /\ Len(wn_inputs) = 2
    /\ wn_inputs[1].timestamp = 0 /\ Len(wn_outputs[1]) = 1
    /\ wn_inputs[2].timestamp = 1 /\ wn_outputs[2] = <<>>
    /\ wn_pc = "done"

====
